---- MODULE Spec2Model ----
(***************************************************************************)
(* Catalog synchronisation and order building of mrprinteto/catalog-       *)
(* template: the secret comparator, the key validator and its cache, the   *)
(* order endpoint, the catalog cache, the retrying fetch, and the cart of  *)
(* the catalog page with its pricing ladder and its local storage.         *)
(*                                                                         *)
(* Strings are sequences of one-character tokens; "NUL" stands for the     *)
(* character U+0000 and " " for a whitespace character.                    *)
(***************************************************************************)
EXTENDS Integers, Sequences, FiniteSets, TLC

VARIABLES
  cmpLeft,        \* safeCompareSecret: argument left
  cmpRight,       \* safeCompareSecret: argument right
  cmpSt,          \* safeCompareSecret: position, locals i and mismatch, result
  cmpInspected,   \* the indices the loop has read with charCodeAt, in order
  now,            \* Date.now()
  ticks,          \* how many times the clock has advanced
  envOk,          \* the NOTION_* environment variables are set
  companyKeyCache,\* companyKeyCache.get('company-key-<slug>'): None or Some(entry)
  val,            \* the call of validateCompanyKeyForCurrentCatalog in progress
  req,            \* the request the order endpoint is serving
  cache,          \* cache.get('catalog-<slug>'): None or Some(entry)
  cat,            \* the calls of getCatalogData in progress, one per caller
  ft,             \* the call of fetchWithRetry in progress
  quote,          \* getUnitPrice: its arguments and its result
  dom,            \* the catalog page: its product cards and summary elements
  store,          \* localStorage: the version marker and the stored quantities
  cart,           \* the cart script: its rows, what it rendered, its last handler
  scanSt,         \* the call of queryAllDatabasePages in progress
  findSt,         \* the call of findCompanyPageBySlug in progress
  prodSt,         \* getCatalogData resolving the products of a company
  textSt,         \* getTextPropertyValue: its argument and its result
  raceSt,         \* concurrent calls of validateCompanyKeyForCurrentCatalog
  submitSt        \* the order modal of the page and its calls of submitPedido

cmpVars == <<cmpLeft, cmpRight, cmpSt, cmpInspected>>

clockVars == <<now, ticks>>

orderVars == <<companyKeyCache, val, req>>

catalogVars == <<cache, cat>>

fetchVars == <<ft>>

priceVars == <<quote>>

cartVars == <<dom, store, cart>>

resolveVars == <<scanSt, findSt, prodSt, textSt, raceSt, submitSt>>

vars == <<cmpVars, clockVars, envOk, orderVars, catalogVars, fetchVars,
          priceVars, cartVars, resolveVars>>

(***************************************************************************)
(* Bounds                                                                  *)
(***************************************************************************)
\* longest string handed to safeCompareSecret
MaxLen == 2

\* longest key typed by a user or stored in a company record
MaxKeyLen == 2

\* how many times the clock advances in one run
MaxTicks == 2

\* the largest maxRetries fetchWithRetry is called with
MaxRetries == 3

\* the largest quantity getUnitPrice is asked a price for
MaxQuoteQty == 101

\* how many times the catalog page is loaded
MaxLoads == 2

\* how many times the user changes a quantity
MaxOps == 2

\* the page requests one full scan is followed for
MaxPages == 3

\* the calls of submitPedido that reach fetch in one visit of the page
MaxSubmits == 2

(***************************************************************************)
(* Strings                                                                 *)
(***************************************************************************)
Chars == {"a", "b", "A", "a_acute", " ", "-", "NUL"}

\* UTF-16 code unit of each character
CharCode == [c \in Chars |->
  CASE c = "a" -> 97 [] c = "b" -> 98 [] c = "A" -> 65 [] c = "a_acute" -> 225
    [] c = " " -> 32 [] c = "-" -> 45 [] OTHER -> 0]

\* the characters of the strings handed to safeCompareSecret on its own
CmpChars == {"a", "b", " ", "NUL"}

\* the characters of keys: typed by the user, or stored in the company record
KeyChars == {"a", "b", " "}

\* the characters of the keys stored under 'Clave' in the sample records
StoredKeyChars == {"a", " "}

\* the element of a one-element set: Only({e(x) : x \in {v}}) is e(v) with v
\* computed once
Only(S) == CHOOSE x \in S : TRUE

\* optional values: undefined or null is None, a value v is Some(v)
None == <<>>

Some(v) == <<v>>

StringsUpTo(alphabet, n) == UNION {[1..k -> alphabet] : k \in 0..n}

Range(seq) == {seq[i] : i \in 1..Len(seq)}

Max(a, b) == IF a >= b THEN a ELSE b

\* JavaScript's bitwise ^ and | on non-negative 32-bit integers
RECURSIVE BitXor(_, _)
BitXor(a, b) ==
  IF a = 0 THEN b
  ELSE IF b = 0 THEN a
  ELSE 2 * BitXor(a \div 2, b \div 2) + (((a % 2) + (b % 2)) % 2)

RECURSIVE BitOr(_, _)
BitOr(a, b) ==
  IF a = 0 THEN b
  ELSE IF b = 0 THEN a
  ELSE 2 * BitOr(a \div 2, b \div 2) + Max(a % 2, b % 2)

(***************************************************************************)
(* safeCompareSecret                                                       *)
(***************************************************************************)
\* s.charCodeAt(i) || 0 : NaN (i past the end) and code 0 both give 0
charCodeAtOrZero(s, i) == IF i < Len(s) THEN CharCode[s[i + 1]] ELSE 0

\* const maxLength = Math.max(left.length, right.length)
maxLength(left, right) == Max(Len(left), Len(right))

\* the accumulator started at 0 whatever the lengths
mismatchInitNoLengthFlag(left, right) == 0

\* let mismatch = left.length === right.length ? 0 : 1
mismatchInit(left, right) == IF Len(left) = Len(right) THEN 0 ELSE 1

\* a loop condition that stops at the first mismatch
compareLoopCondShortCircuit(left, right, i, mismatch) ==
  i < maxLength(left, right) /\ mismatch = 0

\* the for-loop's condition: i < maxLength
compareLoopCond(left, right, i, mismatch) == i < maxLength(left, right)

\* the loop body: mismatch |= leftCode ^ rightCode
compareLoopBody(left, right, i, mismatch) ==
  BitOr(mismatch, BitXor(charCodeAtOrZero(left, i), charCodeAtOrZero(right, i)))

RECURSIVE compareLoop(_, _, _, _)
compareLoop(left, right, i, mismatch) ==
  IF compareLoopCond(left, right, i, mismatch)
  THEN compareLoop(left, right, i + 1, compareLoopBody(left, right, i, mismatch))
  ELSE mismatch

\* safeCompareSecret(left, right): return mismatch === 0
safeCompareSecret(left, right) ==
  compareLoop(left, right, 0, mismatchInit(left, right)) = 0

(***************************************************************************)
(* String functions of the runtime                                         *)
(***************************************************************************)
IsWhitespace(c) == c = " "

RECURSIVE trimStart(_)
trimStart(s) ==
  IF s # <<>> /\ IsWhitespace(Head(s)) THEN trimStart(Tail(s)) ELSE s

RECURSIVE trimEnd(_)
trimEnd(s) ==
  IF s # <<>> /\ IsWhitespace(s[Len(s)])
  THEN trimEnd(SubSeq(s, 1, Len(s) - 1))
  ELSE s

\* String.prototype.trim
trim(s) == trimEnd(trimStart(s))

\* a || b on strings: the first one that is not empty
OrElse(a, b) == IF a # <<>> THEN a ELSE b

\* .normalize('NFD').replace(/[\u0300-\u036f]/g, ''): the base letter
stripAccent(c) == IF c = "a_acute" THEN "a" ELSE c

\* .toLowerCase()
toLowerCase(c) == IF c = "A" THEN "a" ELSE IF c = "E" THEN "e" ELSE c

\* .replace(/\s+/g, '-'): every run of whitespace becomes one hyphen
RECURSIVE replaceWhitespaceRuns(_)
replaceWhitespaceRuns(s) ==
  IF s = <<>> THEN <<>>
  ELSE IF IsWhitespace(Head(s))
       THEN <<"-">> \o replaceWhitespaceRuns(trimStart(s))
       ELSE <<Head(s)>> \o replaceWhitespaceRuns(Tail(s))

slugify(value) ==
  replaceWhitespaceRuns(
    trim([i \in 1..Len(value) |-> toLowerCase(stripAccent(value[i]))]))

(***************************************************************************)
(* Records of the upstream database                                        *)
(*                                                                         *)
(* A property carries any of the fields the extractors look at; a page is   *)
(* an id and a function from property names to properties.                 *)
(***************************************************************************)
NoFields == [type |-> "", title |-> None, rich_text |-> None, select |-> None,
             formula |-> None, url |-> None, relation |-> None]

\* a title or rich_text property holding the given plain_text items
TitleOf(texts) == [NoFields EXCEPT !.type = "title", !.title = Some(texts)]

RichTextOf(texts) ==
  [NoFields EXCEPT !.type = "rich_text", !.rich_text = Some(texts)]

SelectOf(name) == [NoFields EXCEPT !.type = "select", !.select = Some(name)]

FormulaOf(str) == [NoFields EXCEPT !.type = "formula", !.formula = Some(str)]

UrlOf(str) == [NoFields EXCEPT !.type = "url", !.url = Some(str)]

\* a relation property holding the ids of the related pages
RelationOf(ids) == [NoFields EXCEPT !.type = "relation", !.relation = Some(ids)]

\* p.<name> of a property bag: None when the page has no such property
Prop(page, name) ==
  IF name \in DOMAIN page.properties THEN Some(page.properties[name]) ELSE None

\* array[0]?.plain_text ?? ''
firstPlainText(items) == IF Len(items) > 0 THEN items[1] ELSE <<>>

getTextPropertyValue(property) ==
  IF property = None THEN <<>>
  ELSE LET p == property[1] IN
    IF p.title # None THEN firstPlainText(p.title[1])
    ELSE IF p.rich_text # None THEN firstPlainText(p.rich_text[1])
    ELSE IF p.select # None THEN p.select[1]
    ELSE IF p.formula # None /\ p.formula[1] # <<>> THEN p.formula[1]
    ELSE IF p.url # None /\ p.url[1] # <<>> THEN p.url[1]
    ELSE <<>>

parseCompanyKey(page) ==
  trim(OrElse(getTextPropertyValue(Prop(page, "Clave")),
       OrElse(getTextPropertyValue(Prop(page, "clave")),
       OrElse(getTextPropertyValue(Prop(page, "Key")),
              getTextPropertyValue(Prop(page, "Password"))))))

\* parseCompany(page).name
parseCompanyName(page) ==
  OrElse(getTextPropertyValue(Prop(page, "Name")),
  OrElse(getTextPropertyValue(Prop(page, "Nombre")),
  OrElse(getTextPropertyValue(Prop(page, "Company")),
         <<"E", "m", "p", "r", "e", "s", "a">>)))

\* parseCompany(page).slug
parseCompanySlug(page) ==
  slugify(
    OrElse(getTextPropertyValue(Prop(page, "Slug")),
    OrElse(getTextPropertyValue(Prop(page, "slug")),
    OrElse(getTextPropertyValue(Prop(page, "Client Slug")),
    OrElse(getTextPropertyValue(Prop(page, "client-slug")),
           slugify(parseCompanyName(page)))))))

\* parseCompany(page); url and logo are carried along and decide nothing here
parseCompany(page) ==
  [id |-> page.id, name |-> parseCompanyName(page), slug |-> parseCompanySlug(page)]

(***************************************************************************)
(* Upstream queries                                                        *)
(*                                                                         *)
(* What the upstream answers is not the program's to decide: one           *)
(* resolution is run against a "world", the outcome of every query it may   *)
(* issue.  A query outcome is [throws, results, has_more]: queryDatabase    *)
(* throws when fetchWithRetry throws or the response is not ok.            *)
(***************************************************************************)
Throws == [throws |-> TRUE, results |-> <<>>, has_more |-> FALSE]

Answer(results, more) == [throws |-> FALSE, results |-> results, has_more |-> more]

\* queryAllDatabasePages over the responses of the successive page requests:
\* [throws, results, requests]
RECURSIVE queryAllDatabasePagesFrom(_, _, _)
queryAllDatabasePagesFrom(responses, n, allResults) ==
  IF n > Len(responses)
  THEN [throws |-> FALSE, results |-> allResults, requests |-> n - 1]
  ELSE IF responses[n].throws
  THEN [throws |-> TRUE, results |-> <<>>, requests |-> n]
  ELSE IF responses[n].has_more
  THEN queryAllDatabasePagesFrom(responses, n + 1, allResults \o responses[n].results)
  ELSE [throws |-> FALSE, results |-> allResults \o responses[n].results,
        requests |-> n]

queryAllDatabasePages(responses) == queryAllDatabasePagesFrom(responses, 1, <<>>)

\* The loop of queryAllDatabasePages one request at a time.  A response of a
\* page request is [throws, results, has_more, next_cursor]: results is None
\* when the member is missing, next_cursor is None for null.
PageResponse(results, has_more, next_cursor) ==
  [throws |-> FALSE, results |-> results, has_more |-> has_more,
   next_cursor |-> next_cursor]

PageThrows ==
  [throws |-> TRUE, results |-> None, has_more |-> FALSE, next_cursor |-> None]

\* a page request that never carries a cursor
scanRequestNoCursor(nextCursor) == [page_size |-> 100, start_cursor |-> None]

\* { page_size: 100, ...payload, ...(nextCursor ? { start_cursor } : {}) }
scanRequest(nextCursor) ==
  [page_size |-> 100,
   start_cursor |-> IF nextCursor # None /\ nextCursor[1] # <<>>
                    THEN nextCursor ELSE None]

\* the call up to its first await: allResults = [], hasMore = true, the first
\* request.  [pc, allResults, hasMore, nextCursor, request, result, log]: log
\* holds every request made with the response it got
scanStart ==
  [pc |-> "requesting", allResults |-> <<>>, hasMore |-> TRUE,
   nextCursor |-> None, request |-> Some(scanRequest(None)), result |-> None,
   log |-> <<>>]

\* allResults.push(...(data.results ?? []))
pushResults(allResults, response) ==
  allResults \o (IF response.results = None THEN <<>> ELSE response.results[1])

\* from the settling of a page request to the next await, the return or the
\* throw: a request that fails ends the call with nothing returned
scanSettled(st, response) ==
  LET logged == Append(st.log, [request |-> st.request[1],
                                response |-> response])
  IN
  IF response.throws
  THEN [st EXCEPT !.pc = "threw", !.request = None, !.log = logged]
  ELSE IF response.has_more
  THEN [st EXCEPT !.allResults = pushResults(st.allResults, response),
                  !.hasMore = TRUE,
                  !.nextCursor = response.next_cursor,
                  !.request = Some(scanRequest(response.next_cursor)),
                  !.log = logged]
  ELSE [st EXCEPT !.pc = "returned",
                  !.allResults = pushResults(st.allResults, response),
                  !.hasMore = FALSE,
                  !.nextCursor = response.next_cursor,
                  !.request = None,
                  !.result = Some(pushResults(st.allResults, response)),
                  !.log = logged]

\* the candidates with the first two in the other order
slugPropertyCandidatesLowerFirst == <<"slug", "Slug", "Client Slug", "client-slug">>

\* const slugPropertyCandidates = ['Slug', 'slug', 'Client Slug', 'client-slug']
slugPropertyCandidates == <<"Slug", "slug", "Client Slug", "client-slug">>

\* the for-loop over the candidates: the index of the first candidate whose
\* query does not throw and has a result, 0 when there is none
RECURSIVE firstCandidateWithResult(_, _)
firstCandidateWithResult(cand, i) ==
  IF i > Len(slugPropertyCandidates) THEN 0
  ELSE IF ~cand[i].throws /\ Len(cand[i].results) > 0 THEN i
  ELSE firstCandidateWithResult(cand, i + 1)

\* Array.prototype.find looking at the slug only
RECURSIVE findMatchSlugOnly(_, _, _)
findMatchSlugOnly(pages, normalizedCompanySlug, i) ==
  IF i > Len(pages) THEN 0
  ELSE IF slugify(parseCompany(pages[i]).slug) = normalizedCompanySlug THEN i
  ELSE findMatchSlugOnly(pages, normalizedCompanySlug, i + 1)

\* Array.prototype.find: the index of the first page that matches, 0 for none
RECURSIVE findMatch(_, _, _)
findMatch(pages, normalizedCompanySlug, i) ==
  IF i > Len(pages) THEN 0
  ELSE IF \/ slugify(parseCompany(pages[i]).slug) = normalizedCompanySlug
          \/ slugify(parseCompany(pages[i]).name) = normalizedCompanySlug
  THEN i
  ELSE findMatch(pages, normalizedCompanySlug, i + 1)

\* findCompanyPageBySlug against world w = [cand, scan]:
\* [ok, page, error, queries], queries the number of upstream queries issued
\* the fallback of findCompanyPageBySlug: the scan of the whole table and the
\* search for the page whose slug or name matches
findCompanyPageByScan(w, slug) ==
  Only({
    LET queries == Len(slugPropertyCandidates) + fallbackResults.requests IN
    IF fallbackResults.throws
    THEN [ok |-> FALSE, page |-> None, error |-> "Network", queries |-> queries]
    ELSE Only({
      IF match = 0
      THEN [ok |-> FALSE, page |-> None, error |-> "CompanyNotFound",
            queries |-> queries]
      ELSE [ok |-> TRUE, page |-> Some(fallbackResults.results[match]),
            error |-> "", queries |-> queries]
      : match \in {findMatch(fallbackResults.results, slugify(slug), 1)}})
    : fallbackResults \in {queryAllDatabasePages(w.scan)}})

findCompanyPageBySlug(w, slug) ==
  Only({
    IF hit > 0
    THEN [ok |-> TRUE, page |-> Some(w.cand[hit].results[1]), error |-> "",
          queries |-> hit]
    ELSE findCompanyPageByScan(w, slug)
    : hit \in {firstCandidateWithResult(w.cand, 1)}})

\* getCompanyRecordBySlug: [ok, company, key, error, queries]
getCompanyRecordBySlug(w, slug) ==
  Only({
    IF found.ok
    THEN [ok |-> TRUE, page |-> found.page, key |-> parseCompanyKey(found.page[1]),
          error |-> "", queries |-> found.queries]
    ELSE [ok |-> FALSE, page |-> None, key |-> <<>>, error |-> found.error,
          queries |-> found.queries]
    : found \in {findCompanyPageBySlug(w, slug)}})

\* queryAllDatabasePages not called
NoScan ==
  [pc |-> "idle", allResults |-> <<>>, hasMore |-> FALSE, nextCursor |-> None,
   request |-> None, result |-> None, log |-> <<>>]

\* findCompanyPageBySlug one upstream query at a time.
\* [pc, slug, i, queries, scan, page, error]: i is the candidate whose query
\* is in flight, queries the filtered queries made, each with its answer once
\* it has one, scan the call of queryAllDatabasePages
filterQuery(propertyName, slug) ==
  [property |-> propertyName, equals |-> slug, answer |-> None]

\* the call up to its first await: the query of the first candidate
findStart(slug) ==
  [pc |-> "candidate", slug |-> slug, i |-> 1,
   queries |-> <<filterQuery(slugPropertyCandidates[1], slug)>>,
   scan |-> NoScan, page |-> None, error |-> ""]

\* from the settling of the query of candidate st.i to the next await or the
\* return; answer.throws is the catch that goes on with the next candidate
candidateSettled(st, answer) ==
  LET answered == [st.queries EXCEPT ![st.i].answer = Some(answer)] IN
  IF ~answer.throws /\ Len(answer.results) > 0
  THEN [st EXCEPT !.pc = "returned", !.queries = answered,
                  !.page = Some(answer.results[1])]
  ELSE IF st.i < Len(slugPropertyCandidates)
  THEN [st EXCEPT !.i = st.i + 1,
                  !.queries = Append(answered,
                                filterQuery(slugPropertyCandidates[st.i + 1],
                                            st.slug))]
  ELSE [st EXCEPT !.pc = "scanning", !.queries = answered,
                  !.scan = scanStart]

\* from the settling of a page request of the fallback scan on: the scan goes
\* on, fails, or returns and the match is looked for
findScanSettled(st, response) ==
  LET scanned == scanSettled(st.scan, response) IN
  IF scanned.pc = "requesting" THEN [st EXCEPT !.scan = scanned]
  ELSE IF scanned.pc = "threw"
  THEN [st EXCEPT !.pc = "threw", !.scan = scanned, !.error = "Network"]
  ELSE LET match == findMatch(scanned.result[1], slugify(st.slug), 1) IN
       IF match = 0
       THEN [st EXCEPT !.pc = "threw", !.scan = scanned,
                       !.error = "CompanyNotFound"]
       ELSE [st EXCEPT !.pc = "returned", !.scan = scanned,
                       !.page = Some(scanned.result[1][match])]

(***************************************************************************)
(* validateCompanyKeyForCurrentCatalog and the key cache                   *)
(***************************************************************************)
\* const CACHE_TTL_MS = 60 * 60 * 1000
CACHE_TTL_MS == 60 * 60 * 1000

\* config.companySlug, the slug of the current company
companySlug == <<"a", "b">>

\* the freshness test with the boundary counted as fresh
keyEntryFreshAtBoundary(entry, t) == t - entry.timestamp <= CACHE_TTL_MS

\* Date.now() - cachedEntry.timestamp < CACHE_TTL_MS
keyEntryFresh(entry, t) == t - entry.timestamp < CACHE_TTL_MS

\* the decision that lets an empty stored key accept any input
keyDecisionFailOpen(key, normalizedInputKey) ==
  IF key = <<>> THEN TRUE ELSE safeCompareSecret(key, normalizedInputKey)

\* if (!key) return false; return safeCompareSecret(key, normalizedInputKey)
keyDecision(key, normalizedInputKey) ==
  IF key = <<>> THEN FALSE ELSE safeCompareSecret(key, normalizedInputKey)

\* the call without its early return on an empty input
validateEnterNoEmptyCheck(inputKey, env, keyCache, t) ==
  IF ~env
  THEN [kind |-> "throw", value |-> FALSE, path |-> "config", cacheReads |-> 0]
  ELSE IF keyCache # None /\ keyEntryFresh(keyCache[1], t)
  THEN [kind |-> "return",
        value |-> keyDecision(keyCache[1].key, trim(inputKey)),
        path |-> "cached", cacheReads |-> 1]
  ELSE [kind |-> "await", value |-> FALSE, path |-> "fetched", cacheReads |-> 1]

\* The call up to its first await.  env: NOTION_TOKEN and
\* NOTION_COMPANIES_DATABASE_ID are set; keyCache: companyKeyCache.get(cacheKey).
\* [kind, value, path, cacheReads]: kind is "return", "throw" or "await".
validateEnter(inputKey, env, keyCache, t) ==
  LET normalizedInputKey == trim(inputKey) IN
  IF normalizedInputKey = <<>>
  THEN [kind |-> "return", value |-> FALSE, path |-> "empty", cacheReads |-> 0]
  ELSE IF ~env
  THEN [kind |-> "throw", value |-> FALSE, path |-> "config", cacheReads |-> 0]
  ELSE IF keyCache # None /\ keyEntryFresh(keyCache[1], t)
  THEN [kind |-> "return",
        value |-> keyDecision(keyCache[1].key, normalizedInputKey),
        path |-> "cached", cacheReads |-> 1]
  ELSE [kind |-> "await", value |-> FALSE, path |-> "fetched", cacheReads |-> 1]

\* The call from the settling of getCompanyRecordBySlug on, against world w at
\* time t: [kind, value, set, entry, page, queries]; set says whether
\* companyKeyCache.set ran, with entry.
validateResume(inputKey, w, t) ==
  Only({
    IF ~record.ok
    THEN [kind |-> "throw", value |-> FALSE, set |-> FALSE, entry |-> None,
          page |-> None, queries |-> record.queries]
    ELSE [kind |-> "return",
          value |-> keyDecision(record.key, trim(inputKey)),
          set |-> TRUE,
          entry |-> Some([key |-> record.key, timestamp |-> t]),
          page |-> record.page, queries |-> record.queries]
    : record \in {getCompanyRecordBySlug(w, companySlug)}})

(***************************************************************************)
(* getCatalogData and the catalog cache                                    *)
(***************************************************************************)
\* NOTION_COMPANIES_DATABASE_ID
companiesDbId == <<"a", "-", "b">>

\* id.replace(/-/g, '').toLowerCase()
normalizeNotionId(id) ==
  LET kept == SelectSeq(id, LAMBDA c : c # "-") IN
  [i \in 1..Len(kept) |-> toLowerCase(kept[i])]

\* Array.from(new Set(items)): the first occurrence of each item, in order
RECURSIVE dedupe(_)
dedupe(items) ==
  IF items = <<>> THEN <<>>
  ELSE LET init == dedupe(SubSeq(items, 1, Len(items) - 1))
           last == items[Len(items)]
       IN IF \E i \in 1..Len(init) : init[i] = last THEN init
          ELSE Append(init, last)

\* Array.from(new Set([company.id, normalizeNotionId(company.id)]))
companyIdVariants(id) == dedupe(<<id, normalizeNotionId(id)>>)

\* getRelationPropertiesToCompaniesDb: the names of the schema's relation
\* properties that point at the companies table; none when the schema cannot
\* be fetched.  schema is [throws, properties], properties a sequence of
\* [name, type, database_id]
getRelationPropertiesToCompaniesDb(schema, dbId) ==
  IF schema.throws THEN <<>>
  ELSE LET pointing ==
             SelectSeq(schema.properties,
               LAMBDA prop : /\ prop.type = "relation"
                             /\ prop.database_id # None
                             /\ normalizeNotionId(prop.database_id[1])
                                  = normalizeNotionId(dbId))
       IN [i \in 1..Len(pointing) |-> pointing[i].name]

\* new Set([...schemaRelationProperties, 'Empresa', 'Empresas', 'Company'])
relationPropertyCandidates(schemaRelationProperties) ==
  dedupe(schemaRelationProperties \o <<"Empresa", "Empresas", "Company">>)

\* the queries of layer 2 with the loops nested the other way round
RECURSIVE filteredQueriesIdMajor(_, _)
filteredQueriesIdMajor(names, ids) ==
  IF ids = <<>> THEN <<>>
  ELSE [i \in 1..Len(names) |-> <<names[i], Head(ids)>>]
         \o filteredQueriesIdMajor(names, Tail(ids))

\* the queries of layer 2 in the order they are issued: every candidate
\* property with every variant of the company id
RECURSIVE filteredQueries(_, _)
filteredQueries(names, ids) ==
  IF names = <<>> THEN <<>>
  ELSE [i \in 1..Len(ids) |-> <<Head(names), ids[i]>>]
         \o filteredQueries(Tail(names), ids)

\* the two nested loops of layer 2 over answers, a function from
\* <<property, id>> to the outcome of that filtered query: the results of the
\* first query that does not throw and is not empty.  [pages, queries]
RECURSIVE firstFilteredResult(_, _, _)
firstFilteredResult(answers, queries, i) ==
  IF i > Len(queries) THEN [pages |-> <<>>, queries |-> Len(queries)]
  ELSE IF ~answers[queries[i]].throws /\ Len(answers[queries[i]].results) > 0
  THEN [pages |-> answers[queries[i]].results, queries |-> i]
  ELSE firstFilteredResult(answers, queries, i + 1)

\* getRelationIds(properties, propertyNames), as a set
getRelationIds(page, propertyNames) ==
  UNION {
    IF Prop(page, propertyNames[i]) # None
       /\ Prop(page, propertyNames[i])[1].relation # None
    THEN {id \in Range(Prop(page, propertyNames[i])[1].relation[1]) : id # <<>>}
    ELSE {}
    : i \in 1..Len(propertyNames)}

\* getAllRelationIds that finds no id
getAllRelationIdsNone(page) == {}

\* getAllRelationIds(properties), as a set
getAllRelationIds(page) ==
  UNION {
    IF page.properties[n].type = "relation" /\ page.properties[n].relation # None
    THEN {id \in Range(page.properties[n].relation[1]) : id # <<>>}
    ELSE {}
    : n \in DOMAIN page.properties}

\* the filter of the full scan: the page is related to the company
relatedToCompany(page, candidates, idVariants) ==
  LET normalizedRelationIds ==
        {normalizeNotionId(id) :
           id \in getRelationIds(page, candidates) \cup getAllRelationIds(page)}
  IN \E i \in 1..Len(idVariants) :
       normalizeNotionId(idVariants[i]) \in normalizedRelationIds

\* the mapping of a product page; the other fields are read the same way
productOf(page, company) ==
  [id |-> page.id,
   name |-> IF Prop(page, "Name") # None /\ Prop(page, "Name")[1].title # None
            THEN firstPlainText(Prop(page, "Name")[1].title[1])
            ELSE <<>>,
   company |-> company]

\* the freshness test with the boundary counted as fresh
catalogEntryFreshAtBoundary(entry, t) == t - entry.timestamp <= CACHE_TTL_MS

\* Date.now() - cached.timestamp < CACHE_TTL_MS
catalogEntryFresh(entry, t) == t - entry.timestamp < CACHE_TTL_MS

\* getCatalogData up to its first await: [kind, data, cacheReads]
catalogEnter(env, cached, t) ==
  IF ~env
  THEN [kind |-> "throw", data |-> None, cacheReads |-> 0]
  ELSE IF /\ cached # None
          /\ catalogEntryFresh(cached[1], t)
          /\ Len(cached[1].data.products) > 0
  THEN [kind |-> "return", data |-> Some(cached[1].data), cacheReads |-> 1]
  ELSE [kind |-> "await", data |-> None, cacheReads |-> 1]

\* layers 2 and 3: the product pages of the company.  [throws, pages, queries]
productPagesOf(w, company) ==
  Only({
    Only({
      IF Len(filtered.pages) > 0
      THEN [throws |-> FALSE, pages |-> filtered.pages,
            queries |-> 1 + filtered.queries]
      ELSE Only({
        IF allProducts.throws
        THEN [throws |-> TRUE, pages |-> <<>>,
              queries |-> 1 + filtered.queries + allProducts.requests]
        ELSE [throws |-> FALSE,
              pages |-> SelectSeq(allProducts.results,
                          LAMBDA page : relatedToCompany(page, candidates,
                                          companyIdVariants(company.id))),
              queries |-> 1 + filtered.queries + allProducts.requests]
        : allProducts \in {queryAllDatabasePages(w.productScan)}})
      : filtered \in {firstFilteredResult(w.filtered,
                        filteredQueries(candidates, companyIdVariants(company.id)),
                        1)}})
    : candidates \in {relationPropertyCandidates(
                        getRelationPropertiesToCompaniesDb(w.schema, companiesDbId))}})

\* a set that keeps the data of the entry in the slot and takes the new
\* timestamp
cacheSetMerging(slot, entry) ==
  IF slot = None THEN Some(entry)
  ELSE Some([f \in DOMAIN entry |->
               IF f = "timestamp" THEN entry.timestamp ELSE slot[1][f]])

\* Map.prototype.set on the one key of a cache: the slot holds the new entry,
\* whatever it held
cacheSet(slot, entry) == Some(entry)

\* the store without its test on the number of products
catalogStoreAlways(data, t) == Some([data |-> data, timestamp |-> t])

\* if (catalogData.products.length > 0) cache.set(cacheKey, {data, timestamp})
catalogStore(data, t) ==
  IF Len(data.products) > 0 THEN Some([data |-> data, timestamp |-> t])
  ELSE None

\* getCatalogData from its first await on, against world w at time t, the
\* time the last request settles: [kind, data, stored, queries]; stored is
\* the entry handed to cache.set, None when nothing is stored
catalogResume(w, t) ==
  Only({
    IF ~found.ok
    THEN [kind |-> "throw", data |-> None, stored |-> None,
          queries |-> found.queries]
    ELSE Only({
      IF found2.throws
      THEN [kind |-> "throw", data |-> None, stored |-> None,
            queries |-> found.queries + found2.queries]
      ELSE Only({
        [kind |-> "return", data |-> Some(catalogData),
         stored |-> catalogStore(catalogData, t),
         queries |-> found.queries + found2.queries]
        : catalogData \in {[company |-> parseCompany(found.page[1]),
                            products |->
                              [i \in 1..Len(found2.pages) |->
                                 productOf(found2.pages[i],
                                           parseCompany(found.page[1]))]]}})
      : found2 \in {productPagesOf(w, parseCompany(found.page[1]))}})
    : found \in {findCompanyPageBySlug(w, companySlug)}})

\* Layers 1 to 3 of getCatalogData one upstream request at a time, from the
\* company found on.  [pc, companyId, schema, candidates, idVariants, plan, qi,
\* queries, scan, pages, unsent]: plan is the filtered queries in the order of
\* the two loops, qi the one in flight, queries those made with their answers,
\* pages productPages once the layers are through, unsent the pages matching
\* the last filtered query that the upstream kept for later response pages
relationQuery(q) == [property |-> q[1], contains |-> q[2], answer |-> None]

\* up to the await of getRelationPropertiesToCompaniesDb
prodStart(companyId) ==
  [pc |-> "schema", companyId |-> companyId, schema |-> None,
   candidates |-> <<>>, idVariants |-> companyIdVariants(companyId),
   plan |-> <<>>, qi |-> 0, queries |-> <<>>, scan |-> NoScan, pages |-> None,
   unsent |-> <<>>]

\* the schema request that takes down the call when it fails
schemaSettledFailing(st, schema) ==
  IF schema.throws THEN [st EXCEPT !.pc = "threw", !.schema = Some(schema)]
  ELSE LET candidates ==
             relationPropertyCandidates(
               getRelationPropertiesToCompaniesDb(schema, companiesDbId))
           plan == filteredQueries(candidates, st.idVariants)
       IN [st EXCEPT !.pc = "filtered", !.schema = Some(schema),
                     !.candidates = candidates, !.plan = plan, !.qi = 1,
                     !.queries = <<relationQuery(plan[1])>>]

\* the schema request settles: the candidates, and the first filtered query
schemaSettled(st, schema) ==
  LET candidates ==
        relationPropertyCandidates(
          getRelationPropertiesToCompaniesDb(schema, companiesDbId))
      plan == filteredQueries(candidates, st.idVariants)
  IN [st EXCEPT !.pc = "filtered", !.schema = Some(schema),
                !.candidates = candidates, !.plan = plan, !.qi = 1,
                !.queries = <<relationQuery(plan[1])>>]

\* the filtered query in flight settles: its results when it has some, else
\* the next query of the two loops, else the full scan
filteredSettled(st, answer) ==
  LET answered == [st.queries EXCEPT ![st.qi].answer = Some(answer)] IN
  IF ~answer.throws /\ Len(answer.results) > 0
  THEN [st EXCEPT !.pc = "returned", !.queries = answered,
                  !.pages = Some(answer.results)]
  ELSE IF st.qi < Len(st.plan)
  THEN [st EXCEPT !.qi = st.qi + 1,
                  !.queries = Append(answered,
                                     relationQuery(st.plan[st.qi + 1]))]
  ELSE [st EXCEPT !.pc = "scanning", !.queries = answered,
                  !.scan = scanStart]

\* a page request of the full scan of the products settles
prodScanSettled(st, response) ==
  LET scanned == scanSettled(st.scan, response) IN
  IF scanned.pc = "requesting" THEN [st EXCEPT !.scan = scanned]
  ELSE IF scanned.pc = "threw"
  THEN [st EXCEPT !.pc = "threw", !.scan = scanned]
  ELSE [st EXCEPT !.pc = "returned", !.scan = scanned,
                  !.pages = Some(SelectSeq(scanned.result[1],
                              LAMBDA page :
                                relatedToCompany(page, st.candidates,
                                                 st.idVariants)))]

(***************************************************************************)
(* The order endpoint                                                      *)
(*                                                                         *)
(* A JSON value is [type, ...]; an absent member reads as JUndefined.       *)
(***************************************************************************)
JUndefined == [type |-> "undefined"]

JNull == [type |-> "null"]

JNumber == [type |-> "number"]

JString(str) == [type |-> "string", str |-> str]

JArray(length) == [type |-> "array", length |-> length]

JObject(fields) == [type |-> "object", fields |-> fields]

\* value?.name and value.name
Member(value, name) ==
  IF value.type = "object" /\ name \in DOMAIN value.fields
  THEN value.fields[name]
  ELSE JUndefined

\* typeof value
typeOf(value) ==
  IF value.type \in {"null", "array"} THEN "object" ELSE value.type

\* the truthiness of a value used as a condition
truthy(value) ==
  /\ value.type \notin {"undefined", "null"}
  /\ value.type = "string" => value.str # <<>>

\* the shape check without payload.items.length > 0
isValidPresupuestoAnyItems(payload) ==
  /\ truthy(payload)
  /\ typeOf(payload) = "object"
  /\ typeOf(Member(payload, "companyName")) = "string"
  /\ typeOf(Member(payload, "companySlug")) = "string"
  /\ Member(payload, "items").type = "array"
  /\ typeOf(Member(payload, "subtotal")) = "number"
  /\ typeOf(Member(payload, "discount")) = "number"
  /\ typeOf(Member(payload, "total")) = "number"

isValidPresupuesto(payload) ==
  /\ truthy(payload)
  /\ typeOf(payload) = "object"
  /\ typeOf(Member(payload, "companyName")) = "string"
  /\ typeOf(Member(payload, "companySlug")) = "string"
  /\ Member(payload, "items").type = "array"
  /\ Member(payload, "items").length > 0
  /\ typeOf(Member(payload, "subtotal")) = "number"
  /\ typeOf(Member(payload, "discount")) = "number"
  /\ typeOf(Member(payload, "total")) = "number"

Response(status, code) == [status |-> status, code |-> code]

NoResponse == Response(0, "")

\* const key = typeof body?.key === 'string' ? body.key.trim() : ''
bodyKey(body) ==
  IF typeOf(Member(body, "key")) = "string" THEN trim(Member(body, "key").str)
  ELSE <<>>

\* POST up to the call of the validator: request.text(), JSON.parse and the
\* checks of key and presupuesto.  [proceed, key, response]
postParse(raw) ==
  IF raw.kind = "unreadable"
  THEN [proceed |-> FALSE, key |-> <<>>, response |-> Response(500, "INTERNAL_ERROR")]
  ELSE IF raw.kind = "empty"
  THEN [proceed |-> FALSE, key |-> <<>>, response |-> Response(400, "INVALID_PAYLOAD")]
  ELSE IF raw.kind = "text"
  THEN [proceed |-> FALSE, key |-> <<>>, response |-> Response(400, "INVALID_PAYLOAD")]
  ELSE
    LET key == bodyKey(raw.value)
        presupuesto == Member(raw.value, "presupuesto")
    IN
    IF key = <<>> \/ ~isValidPresupuesto(presupuesto)
    THEN [proceed |-> FALSE, key |-> key,
          response |-> Response(400, "INVALID_PAYLOAD")]
    ELSE [proceed |-> TRUE, key |-> key, response |-> NoResponse]

\* POST going on to the webhook whatever the validator returned
postAfterValidateUnchecked(outcome, isValidKey) ==
  IF outcome = "throw"
  THEN [pc |-> "done", response |-> Response(500, "INTERNAL_ERROR"),
        webhookCalls |-> 0]
  ELSE [pc |-> "webhook", response |-> NoResponse, webhookCalls |-> 1]

\* POST from the settling of the validator on: outcome is "return" or "throw",
\* isValidKey the value returned.  [pc, response, webhookCalls]
postAfterValidate(outcome, isValidKey) ==
  IF outcome = "throw"
  THEN [pc |-> "done", response |-> Response(500, "INTERNAL_ERROR"),
        webhookCalls |-> 0]
  ELSE IF ~isValidKey
  THEN [pc |-> "done", response |-> Response(401, "INVALID_KEY"),
        webhookCalls |-> 0]
  ELSE [pc |-> "webhook", response |-> NoResponse, webhookCalls |-> 1]

\* POST from the settling of fetch(getWebhookUrl(), ...) on: the webhook
\* answered ok ("ok"), answered with a status that is not 2xx ("notOk"), or
\* the fetch rejected ("throws")
postAfterWebhook(webhook) ==
  IF webhook = "throws" THEN Response(500, "INTERNAL_ERROR")
  ELSE IF webhook = "notOk" THEN Response(502, "WEBHOOK_ERROR")
  ELSE Response(200, "")

(***************************************************************************)
(* The inputs of the order endpoint and the worlds of a key resolution     *)
(***************************************************************************)
KeyStrings == StringsUpTo(KeyChars, MaxKeyLen)

GoodPresupuestoFields ==
  [companyName |-> JString(<<"A">>), companySlug |-> JString(companySlug),
   items |-> JArray(1), subtotal |-> JNumber, discount |-> JNumber,
   total |-> JNumber]

\* a well-formed presupuesto, and presupuestos with one member wrong
SamplePresupuestos ==
  {JObject(GoodPresupuestoFields)}
  \cup {JObject([GoodPresupuestoFields EXCEPT ![f] = v]) :
          f \in {"companyName", "companySlug"}, v \in {JUndefined, JNumber}}
  \cup {JObject([GoodPresupuestoFields EXCEPT !.items = v]) :
          v \in {JUndefined, JString(<<"a">>), JArray(0)}}
  \cup {JObject([GoodPresupuestoFields EXCEPT ![f] = v]) :
          f \in {"subtotal", "discount", "total"},
          v \in {JUndefined, JNull, JString(<<"a">>)}}
  \cup {JUndefined, JNull, JNumber, JString(<<"a">>), JArray(1)}

SampleKeyMembers ==
  {JUndefined, JNull, JNumber} \cup {JString(k) : k \in KeyStrings}

SampleRawBodies ==
  {[kind |-> "unreadable"], [kind |-> "empty"], [kind |-> "text"]}
  \cup {[kind |-> "json", value |-> v] :
          v \in {JNull, JNumber, JString(<<"a">>), JArray(1)}}
  \cup {[kind |-> "json",
          value |-> JObject([key |-> k, presupuesto |-> JObject(GoodPresupuestoFields)])] :
          k \in SampleKeyMembers}
  \cup {[kind |-> "json",
          value |-> JObject([key |-> JString(<<"a">>), presupuesto |-> q])] :
          q \in SamplePresupuestos}

\* company records of the current company: the key under each of the names
\* and shapes parseCompanyKey reads, or no key at all
CompanyPage(id, slugText, keyProps) ==
  [id |-> id,
   properties |-> [n \in {"Slug"} |-> RichTextOf(<<slugText>>)] @@ keyProps]

KeyPages ==
  {CompanyPage(<<"A", "-", "b">>, companySlug, [n \in {"Clave"} |-> RichTextOf(<<k>>)]) :
     k \in StringsUpTo(StoredKeyChars, MaxKeyLen)}
  \cup {CompanyPage(<<"A", "-", "b">>, companySlug,
          [n \in {"Clave", "Password"} |->
             IF n = "Clave" THEN RichTextOf(<<>>) ELSE TitleOf(<<<<"b">>>>)]),
        CompanyPage(<<"A", "-", "b">>, companySlug,
          [n \in {"clave", "Key"} |->
             IF n = "clave" THEN SelectOf(<<>>) ELSE FormulaOf(<<"a", " ">>)]),
        CompanyPage(<<"A", "-", "b">>, <<"A", "b">>, [n \in {"Key"} |-> UrlOf(<<"a">>)]),
        CompanyPage(<<"A", "-", "b">>, companySlug, [n \in {"Name"} |-> TitleOf(<<<<"A">>>>)])}

OtherCompanyPage ==
  CompanyPage(<<"b", "-", "b">>, <<"b">>, [n \in {"Clave"} |-> RichTextOf(<<<<"b", "b">>>>)])

NoResult == Answer(<<>>, FALSE)

\* records reached in every way: by a candidate query, by the full scan
PathPages ==
  {CompanyPage(<<"A", "-", "b">>, companySlug, [n \in {"Clave"} |-> RichTextOf(<<<<"a">>>>)]),
   CompanyPage(<<"A", "-", "b">>, <<"A", "b">>, [n \in {"Key"} |-> UrlOf(<<"a", "b">>)]),
   CompanyPage(<<"A", "-", "b">>, <<"b">>, [n \in {"Name"} |-> TitleOf(<<<<"a", "b">>>>)])}

\* the worlds of one resolution of the company record: every record found by
\* the first candidate query, and for two records every way to reach them
KeyWorlds ==
  {[cand |-> <<Answer(<<pg>>, FALSE), NoResult, NoResult, NoResult>>,
    scan |-> <<Throws>>] : pg \in KeyPages}
  \cup UNION {{[cand |-> c, scan |-> sc] :
          c \in {<<Throws, NoResult, Answer(<<pg, OtherCompanyPage>>, FALSE), NoResult>>,
                 <<NoResult, NoResult, NoResult, NoResult>>,
                 <<Throws, Throws, Throws, Throws>>},
          sc \in {<<Throws>>,
                  <<Answer(<<OtherCompanyPage>>, FALSE)>>,
                  <<Answer(<<OtherCompanyPage>>, TRUE), Answer(<<pg>>, FALSE)>>,
                  <<Answer(<<OtherCompanyPage>>, TRUE), Throws>>}} :
          pg \in PathPages}

(***************************************************************************)
(* The worlds of one resolution of the catalog                             *)
(***************************************************************************)
\* the record of the current company
CatalogCompanyPage ==
  CompanyPage(<<"A", "-", "b">>, companySlug, [n \in {"Name"} |-> TitleOf(<<<<"A">>>>)])

ProductPage(id, relationName, relationIds) ==
  [id |-> id,
   properties |-> [n \in {"Name", relationName} |->
                     IF n = "Name" THEN TitleOf(<<id>>)
                     ELSE RelationOf(relationIds)]]

\* a product related by the alias Empresa, one related by the undiscovered
\* Cliente through the id without hyphens, one of another company
ProductEmpresa == ProductPage(<<"1">>, "Empresa", <<<<"A", "-", "b">>>>)

ProductCliente == ProductPage(<<"2">>, "Cliente", <<<<"a", "b">>>>)

ProductOther == ProductPage(<<"3">>, "Empresa", <<<<"b", "-", "b">>>>)

FilteredQueries ==
  {"Cliente", "Empresa", "Empresas", "Company"}
    \X {<<"A", "-", "b">>, <<"a", "b">>}

SampleFiltered ==
  {[q \in FilteredQueries |-> NoResult],
   [q \in FilteredQueries |-> Throws],
   [q \in FilteredQueries |->
      IF q = <<"Empresa", <<"A", "-", "b">>>>
      THEN Answer(<<ProductEmpresa>>, FALSE) ELSE NoResult],
   [q \in FilteredQueries |->
      IF q[1] = "Empresas" THEN Throws
      ELSE IF q = <<"Company", <<"a", "b">>>>
      THEN Answer(<<ProductEmpresa, ProductCliente>>, FALSE) ELSE NoResult],
   [q \in FilteredQueries |->
      IF q[1] = "Cliente" THEN Answer(<<ProductCliente>>, TRUE) ELSE NoResult]}

SampleSchemas ==
  {[throws |-> TRUE, properties |-> <<>>],
   [throws |-> FALSE, properties |-> <<>>],
   [throws |-> FALSE,
    properties |-> <<[name |-> "Name", type |-> "title", database_id |-> None],
                     [name |-> "Cliente", type |-> "relation",
                      database_id |-> Some(<<"A", "b">>)],
                     [name |-> "Empresa", type |-> "relation",
                      database_id |-> Some(<<"b">>)]>>]}

SampleProductScans ==
  {<<Throws>>,
   <<Answer(<<ProductOther>>, FALSE)>>,
   <<Answer(<<ProductEmpresa, ProductOther>>, TRUE),
     Answer(<<ProductCliente>>, FALSE)>>}

FoundAtOnce ==
  <<Answer(<<CatalogCompanyPage>>, FALSE), NoResult, NoResult, NoResult>>

\* every way to resolve the products of a company found at once, and the
\* other ways to resolve the company with one way to resolve its products
CatalogWorlds ==
  {[cand |-> FoundAtOnce, scan |-> <<Throws>>, schema |-> sch, filtered |-> f,
    productScan |-> ps] :
     sch \in SampleSchemas, f \in SampleFiltered, ps \in SampleProductScans}
  \cup {[cand |-> c, scan |-> sc, schema |-> [throws |-> FALSE, properties |-> <<>>],
          filtered |-> [q \in FilteredQueries |->
                          IF q[1] = "Empresa" THEN Answer(<<ProductEmpresa>>, FALSE)
                          ELSE NoResult],
          productScan |-> <<Throws>>] :
          c \in {<<Throws, Throws, Throws, Throws>>,
                 <<NoResult, Throws, NoResult, NoResult>>},
          sc \in {<<Throws>>,
                  <<Answer(<<OtherCompanyPage>>, FALSE)>>,
                  <<Answer(<<OtherCompanyPage>>, TRUE),
                    Answer(<<CatalogCompanyPage>>, FALSE)>>}}

(***************************************************************************)
(* fetchWithRetry                                                          *)
(*                                                                         *)
(* The outcome of one attempt is a response [kind |-> "response", status]  *)
(* or an exception fetch rejected with [kind |-> "exception", error]: the   *)
(* transport failing, or the abort of the 5 second timeout.                *)
(***************************************************************************)
\* maxRetries = 3
defaultMaxRetries == 3

HttpResponse(status) == [kind |-> "response", status |-> status]

Rejection(error) == [kind |-> "exception", error |-> error]

\* response.ok: the status is in the range 200-299
responseOk(status) == status >= 200 /\ status <= 299

\* a retry test that takes every status that is not ok for retryable
isRetryableStatusAnyError(status) == status >= 400

\* a retry test that lets a 429 through to the caller
isRetryableStatusServerOnly(status) == status >= 500

\* response.status === 429 || response.status >= 500
isRetryableStatus(status) == status = 429 \/ status >= 500

\* Math.pow(2, attempt) * 1000
backoffMs(attempt) == (2 ^ attempt) * 1000

\* the catch branch: if (attempt < maxRetries - 1) await the backoff
waitsAfterException(attempt, maxRetries) == attempt < maxRetries - 1

\* the error thrown after the loop with lastError forgotten
exhaustedErrorGeneric(lastError) == "Max retries exceeded"

\* throw lastError || new Error('Max retries exceeded')
exhaustedError(lastError) ==
  IF lastError # None THEN lastError[1] ELSE "Max retries exceeded"

\* The loop from the head of its condition, attempt being the value of the
\* loop variable: another fetch, or the throw after the loop.
\* [pc, attempt, error]
loopHead(attempt, maxRetries, lastError) ==
  IF attempt < maxRetries
  THEN [pc |-> "fetching", attempt |-> attempt, error |-> None]
  ELSE [pc |-> "thrown", attempt |-> attempt,
        error |-> Some(exhaustedError(lastError))]

\* One attempt from the settling of its fetch to the next await, return or
\* throw.  [pc, attempt, lastError, response, error, wait]: wait is None or
\* Some(ms), the backoff the attempt goes on to await.
attemptSettled(outcome, attempt, maxRetries, lastError) ==
  IF outcome.kind = "response"
  THEN IF responseOk(outcome.status)
       THEN [pc |-> "returned", attempt |-> attempt, lastError |-> lastError,
             response |-> Some(outcome), error |-> None, wait |-> None]
       ELSE IF isRetryableStatus(outcome.status)
       THEN \* the backoff is awaited whatever the attempt, then: continue
            [pc |-> "backoff", attempt |-> attempt,
             lastError |-> lastError, response |-> None, error |-> None,
             wait |-> Some(backoffMs(attempt))]
       ELSE [pc |-> "returned", attempt |-> attempt, lastError |-> lastError,
             response |-> Some(outcome), error |-> None, wait |-> None]
  ELSE IF waitsAfterException(attempt, maxRetries)
       THEN [pc |-> "backoff", attempt |-> attempt,
             lastError |-> Some(outcome.error), response |-> None,
             error |-> None, wait |-> Some(backoffMs(attempt))]
       ELSE Only({[pc |-> h.pc, attempt |-> h.attempt,
                   lastError |-> Some(outcome.error), response |-> None,
                   error |-> h.error, wait |-> None]
                  : h \in {loopHead(attempt + 1, maxRetries,
                                    Some(outcome.error))}})

\* the outcomes of an attempt
SampleStatuses == {200, 404, 429, 500, 503}

SampleErrors == {"AbortError", "TypeError"}

AttemptOutcomes ==
  {HttpResponse(st) : st \in SampleStatuses}
  \cup {Rejection(e) : e \in SampleErrors}

(***************************************************************************)
(* The cart script of the catalog page                                     *)
(*                                                                         *)
(* A JavaScript number is [kind, twice]: a finite number is a multiple of   *)
(* one half, twice its double; NaN and the infinities are kinds of their    *)
(* own.  A quantity of the cart and a price are kept as integers.           *)
(***************************************************************************)
Finite(twice) == [kind |-> "finite", twice |-> twice]

NaN == [kind |-> "NaN", twice |-> 0]

PlusInfinity == [kind |-> "Infinity", twice |-> 1]

MinusInfinity == [kind |-> "Infinity", twice |-> -1]

\* a JSON value that is a string, not a number
JsonText == [kind |-> "string", twice |-> 0]

\* Number.isFinite(value)
isFiniteNumber(value) == value.kind = "finite"

\* Math.floor(value), value finite
floorOf(value) == value.twice \div 2

\* value > 0 for a JSON value: a string is compared after Number.isFinite
\* has already rejected it
isPositive(value) ==
  \/ value.kind = "finite" /\ value.twice > 0
  \/ value = PlusInfinity

\* const STORAGE_VERSION = 1
STORAGE_VERSION == 1

\* Number(storedVersion) || 0 : null and '' give 0, text that is no number
\* gives NaN and so 0
markerVersion(storedVersion) ==
  IF storedVersion = None THEN 0
  ELSE IF storedVersion[1] = "1" THEN 1
  ELSE IF storedVersion[1] = "2" THEN 2
  ELSE 0

\* String(STORAGE_VERSION)
versionMarker(version) == IF version = 1 THEN "1" ELSE "2"

\* getUnitPrice with the thresholds tested lowest first
getUnitPriceLowestFirst(row, qty) ==
  IF qty >= 10 /\ row.priceX10 > 0 THEN row.priceX10
  ELSE IF qty >= 50 /\ row.priceX50 > 0 THEN row.priceX50
  ELSE IF qty >= 100 /\ row.priceX100 > 0 THEN row.priceX100
  ELSE row.priceBase

\* getUnitPrice(row, qty)
getUnitPrice(row, qty) ==
  IF qty >= 100 /\ row.priceX100 > 0 THEN row.priceX100
  ELSE IF qty >= 50 /\ row.priceX50 > 0 THEN row.priceX50
  ELSE IF qty >= 10 /\ row.priceX10 > 0 THEN row.priceX10
  ELSE row.priceBase

\* The sum of the numbers of a sequence, added from the first on
RECURSIVE SumFrom(_, _, _)
SumFrom(seq, i, acc) ==
  IF i > Len(seq) THEN acc ELSE SumFrom(seq, i + 1, acc + seq[i])

Sum(seq) == SumFrom(seq, 1, 0)

\* localStorage in a mode: "ok"; "denied", where every access throws (storage
\* blocked for the page); "readonly", where every setItem throws; "quota",
\* where the setItem of the quantities throws and that of the marker does not
StorageModes == {"ok", "denied", "readonly", "quota"}

getItemThrows(mode) == mode = "denied"

removeItemThrows(mode) == mode = "denied"

setVersionThrows(mode) == mode \in {"denied", "readonly"}

setStateThrows(mode) == mode \in {"denied", "readonly", "quota"}

\* the stored quantities: the JSON text of an object, or text JSON.parse
\* rejects
NoEntries == [id \in {} |-> Finite(0)]

JsonObject(entries) == [kind |-> "object", entries |-> entries]

CorruptJson == [kind |-> "corrupt", entries |-> NoEntries]

\* the catch of loadQuantities: console.warn, removeItem(STORAGE_KEY), return
\* new Map().  [throws, map, store]
loadCatch(st, mode) ==
  IF removeItemThrows(mode)
  THEN [throws |-> TRUE, map |-> NoEntries, store |-> st]
  ELSE [throws |-> FALSE, map |-> NoEntries,
        store |-> [st EXCEPT !.state = None]]

\* the entries kept: Number.isFinite(qty) && qty > 0, each floored
parsedQuantities(entries) ==
  [id \in {i \in DOMAIN entries :
             isFiniteNumber(entries[i]) /\ isPositive(entries[i])}
     |-> floorOf(entries[id])]

\* loadQuantities that reads the quantities whatever the marker
loadQuantitiesAnyVersion(st, mode) ==
  IF getItemThrows(mode) THEN loadCatch(st, mode)
  ELSE IF st.state = None
  THEN [throws |-> FALSE, map |-> NoEntries, store |-> st]
  ELSE IF st.state[1].kind = "corrupt" THEN loadCatch(st, mode)
  ELSE [throws |-> FALSE, map |-> parsedQuantities(st.state[1].entries),
        store |-> st]

\* loadQuantities() on the storage st in mode.  [throws, map, store]: throws
\* says an error escapes the function, map is the Map returned
loadQuantities(st, mode) ==
  IF getItemThrows(mode) THEN loadCatch(st, mode)
  ELSE IF markerVersion(st.version) # STORAGE_VERSION
  THEN IF removeItemThrows(mode) THEN loadCatch(st, mode)
       ELSE IF setVersionThrows(mode)
       THEN loadCatch([st EXCEPT !.state = None], mode)
       ELSE [throws |-> FALSE, map |-> NoEntries,
             store |-> [version |-> Some(versionMarker(STORAGE_VERSION)),
                        state |-> None]]
  ELSE IF st.state = None
  THEN [throws |-> FALSE, map |-> NoEntries, store |-> st]
  ELSE IF st.state[1].kind = "corrupt" THEN loadCatch(st, mode)
  ELSE [throws |-> FALSE, map |-> parsedQuantities(st.state[1].entries),
        store |-> st]

\* a row of the cart: ProductRow
ProductRow(card) ==
  [id |-> card.id, priceBase |-> card.priceBase, priceX10 |-> card.priceX10,
   priceX50 |-> card.priceX50, priceX100 |-> card.priceX100, qty |-> 0,
   countValue |-> 0, minusDisabled |-> TRUE]

\* the quantity of the row of id
qtyOf(state, id) == state[CHOOSE i \in 1..Len(state) : state[i].id = id].qty

\* a snapshot that keeps the rows at 0 too
snapshotOfAllRows(state) ==
  [id \in {state[i].id : i \in 1..Len(state)} |-> Finite(2 * qtyOf(state, id))]

\* the snapshot saveState writes: the rows with qty > 0, as JSON numbers
snapshotOf(state) ==
  [id \in {state[i].id : i \in {j \in 1..Len(state) : state[j].qty > 0}} |->
     Finite(2 * qtyOf(state, id))]

\* the object saveState stringifies
savedObject(state) == JsonObject(snapshotOf(state))

\* saveState() on the storage st in mode.  [store, saved]: saved says both
\* writes succeeded; a throw is caught and logged
saveState(state, st, mode) ==
  IF setVersionThrows(mode) THEN [store |-> st, saved |-> FALSE]
  ELSE IF setStateThrows(mode)
  THEN [store |-> [st EXCEPT !.version = Some(versionMarker(STORAGE_VERSION))],
        saved |-> FALSE]
  ELSE [store |-> [version |-> Some(versionMarker(STORAGE_VERSION)),
                   state |-> Some(savedObject(state))],
        saved |-> TRUE]

\* every row taken for selected
getSelectedRowsAll(state) == state

\* getSelectedRows()
getSelectedRows(state) == SelectSeq(state, LAMBDA r : r.qty > 0)

\* buildPresupuestoPayload(): None for null, or Some(payload)
buildPresupuestoPayload(state) ==
  LET rows == getSelectedRows(state)
      items == [i \in 1..Len(rows) |->
                  [id |-> rows[i].id, qty |-> rows[i].qty,
                   unitPrice |-> getUnitPrice(rows[i], rows[i].qty),
                   baseUnitPrice |-> rows[i].priceBase,
                   subtotal |-> rows[i].qty * getUnitPrice(rows[i], rows[i].qty)]]
      total == Sum([i \in 1..Len(rows) |-> items[i].subtotal])
      subtotal == Sum([i \in 1..Len(rows) |-> rows[i].qty * rows[i].priceBase])
  IN
  IF Len(rows) = 0 THEN None
  ELSE Some([items |-> items, subtotal |-> subtotal,
             discount |-> Max(0, subtotal - total), total |-> total])

\* what render() leaves on the page: the lines of the summary, the total, the
\* savings text and whether the savings row is hidden.  With no row selected
\* the savings text is left as it was.
BlankView ==
  [lines |-> <<>>, total |-> 0, savings |-> 0, savingsHidden |-> TRUE]

render(state, view) ==
  LET rows == getSelectedRows(state)
      lines == [i \in 1..Len(rows) |->
                  [id |-> rows[i].id, qty |-> rows[i].qty,
                   unitPrice |-> getUnitPrice(rows[i], rows[i].qty),
                   struck |-> getUnitPrice(rows[i], rows[i].qty)
                                # rows[i].priceBase,
                   subtotal |-> rows[i].qty * getUnitPrice(rows[i], rows[i].qty)]]
      totalSavings ==
        Sum([i \in 1..Len(rows) |->
               Max(0, rows[i].qty * rows[i].priceBase - lines[i].subtotal)])
  IN
  IF Len(rows) = 0
  THEN [lines |-> <<>>, total |-> 0, savings |-> view.savings,
        savingsHidden |-> TRUE]
  ELSE [lines |-> lines,
        total |-> Sum([i \in 1..Len(rows) |-> lines[i].subtotal]),
        savings |-> totalSavings, savingsHidden |-> ~(totalSavings > 0)]

\* updateRow with the new quantity not clamped at 0
updateRowQtyUnclamped(row, delta) ==
  [row EXCEPT !.qty = row.qty + delta, !.countValue = row.qty + delta,
              !.minusDisabled = (row.qty + delta = 0)]

\* updateRow: row.qty = Math.max(0, row.qty + delta), the input and the button
updateRowQty(row, delta) ==
  [row EXCEPT !.qty = Max(0, row.qty + delta),
              !.countValue = Max(0, row.qty + delta),
              !.minusDisabled = (Max(0, row.qty + delta) = 0)]

\* the quantity setRow stores for value
setQty(value) ==
  IF isFiniteNumber(value) THEN Max(0, floorOf(value)) ELSE 0

\* setRow: the quantity, the input and the button
setRowQty(row, value) ==
  [row EXCEPT !.qty = setQty(value), !.countValue = setQty(value),
              !.minusDisabled = (setQty(value) = 0)]

\* state with the row of id replaced by f applied to it
withRow(state, id, f(_)) ==
  [i \in 1..Len(state) |-> IF state[i].id = id THEN f(state[i]) ELSE state[i]]

(***************************************************************************)
(* The states at rest                                                      *)
(***************************************************************************)
CmpIdle == [pc |-> "call", i |-> 0, mismatch |-> 0, result |-> FALSE]

CompareAtRest ==
  /\ cmpLeft = <<>>
  /\ cmpRight = <<>>
  /\ cmpSt = CmpIdle
  /\ cmpInspected = <<>>

ValIdle ==
  [pc |-> "idle", caller |-> "none", input |-> <<>>, outcome |-> "none",
   result |-> FALSE, path |-> "none", queries |-> 0, cacheReads |-> 0,
   cacheWrites |-> 0, entryAtStart |-> None, startedAt |-> 0, settledAt |-> 0,
   page |-> None]

ReqIdle ==
  [pc |-> "idle", body |-> [kind |-> "none"], response |-> NoResponse,
   validatorCalls |-> 0, validated |-> "none", webhookCalls |-> 0,
   webhook |-> "none"]

ClockAtRest == now = 0 /\ ticks = 0

OrderAtRest ==
  /\ companyKeyCache = None
  /\ val = ValIdle
  /\ req = ReqIdle

\* the callers of getCatalogData: two requests may be rendering at a time
Callers == {"first", "second"}

CatIdle ==
  [pc |-> "idle", outcome |-> "none", data |-> None, queries |-> 0,
   stored |-> FALSE, entryAtStart |-> None, startedAt |-> 0]

CatalogAtRest ==
  /\ cache = None
  /\ cat = [c \in Callers |-> CatIdle]

FetchIdle ==
  [pc |-> "idle", maxRetries |-> 0, attempt |-> 0, lastError |-> None,
   response |-> None, error |-> None, log |-> <<>>]

FetchAtRest == ft = FetchIdle

\* the storage with nothing stored
EmptyStore == [version |-> None, state |-> None]

\* the last handler run: its arguments, whether saveState wrote both keys,
\* whether an error escaped it; for init also the mode of localStorage, the
\* storage it found, the Map loadQuantities returned and the storage as
\* loadQuantities left it
NoHandler ==
  [op |-> "none", id |-> "", value |-> Finite(0), mode |-> "none",
   saved |-> FALSE, escaped |-> FALSE, storeBefore |-> EmptyStore,
   loaded |-> NoEntries, afterLoad |-> EmptyStore, qtyBefore |-> 0]

\* what the last call of getPresupuestoPayload returned, if the quantities
\* have not changed since
NotBuilt == [built |-> FALSE, value |-> None]

\* what the page held when it was left, for the init that follows: whether
\* its last handler had written both keys, and then the quantity of every row
NoPrev == [saved |-> FALSE, qtys |-> [id \in {} |-> 0]]

\* the script before init has run
CartUnloaded ==
  [pc |-> "unloaded", state |-> <<>>, view |-> BlankView, loads |-> 0,
   ops |-> 0, last |-> NoHandler, payload |-> NotBuilt, prev |-> NoPrev]

\* no call of queryAllDatabasePages, findCompanyPageBySlug, getCatalogData's
\* product resolution, getTextPropertyValue or concurrent validation
ScanIdle == NoScan

FindIdle ==
  [pc |-> "idle", slug |-> <<>>, i |-> 0, queries |-> <<>>, scan |-> ScanIdle,
   page |-> None, error |-> ""]

ProdIdle ==
  [pc |-> "idle", companyId |-> <<>>, schema |-> None, candidates |-> <<>>,
   idVariants |-> <<>>, plan |-> <<>>, qi |-> 0, queries |-> <<>>,
   scan |-> NoScan, pages |-> None, unsent |-> <<>>]

TextIdle == [pc |-> "idle", property |-> None, result |-> <<>>]

(***************************************************************************)
(* The order modal and submitPedido.  The page is [rows, modalOpen,         *)
(* keyValue, confirmDisabled, modalError, notification, calls]: calls is    *)
(* the calls of submitPedido that got as far as fetch, each [pc, key,       *)
(* payload, response], in the order they were made.                        *)
(***************************************************************************)
\* what fetch('/api/pedido') resolves to: the status and what response.json()
\* gives, None when it throws
PedidoResponse(status, data) ==
  [rejected |-> FALSE, status |-> status, data |-> data]

\* fetch('/api/pedido') rejecting
PedidoRejection == [rejected |-> TRUE, status |-> 0, data |-> None]

\* response.ok
pedidoOk(response) == response.status \in 200..299

\* closeModal()
closeModal(page) == [page EXCEPT !.modalOpen = FALSE, !.modalError = ""]

\* openModal()
openModal(page) ==
  [page EXCEPT !.modalError = "", !.keyValue = <<>>, !.modalOpen = TRUE]

\* submitPedido() up to await fetch: the two early returns, then the button
\* is disabled and the request is made
submitEnter(page) ==
  IF buildPresupuestoPayload(page.rows) = None
  THEN [page EXCEPT !.modalError = "empty"]
  ELSE IF trim(page.keyValue) = <<>>
  THEN [page EXCEPT !.modalError = "nokey"]
  ELSE [page EXCEPT
          !.confirmDisabled = TRUE,
          !.calls = Append(@, [pc |-> "fetching", key |-> trim(page.keyValue),
                               payload |-> buildPresupuestoPayload(page.rows)[1],
                               response |-> None])]

\* the fetch of call i settles: a rejection goes to catch and finally, a
\* response goes on to await response.json()
submitFetchSettled(page, i, response) ==
  IF response.rejected
  THEN [closeModal(page) EXCEPT
          !.notification = "error", !.confirmDisabled = FALSE,
          !.calls[i].pc = "done", !.calls[i].response = Some(response)]
  ELSE [page EXCEPT !.calls[i].pc = "json",
                    !.calls[i].response = Some(response)]

\* response.json() of call i settles: a wrong key is shown in the modal, and
\* anything else closes it and notifies; finally enables the button
submitJsonSettled(page, i) ==
  LET response == page.calls[i].response[1]
      data == response.data
  IN
  IF response.status = 401 \/ (data # None /\ data[1].code = "INVALID_KEY")
  THEN [page EXCEPT !.modalError = "badkey", !.confirmDisabled = FALSE,
                    !.calls[i].pc = "done"]
  ELSE [closeModal(page) EXCEPT
          !.notification =
            IF pedidoOk(response) /\ data # None /\ data[1].success
            THEN "success" ELSE "warning",
          !.confirmDisabled = FALSE, !.calls[i].pc = "done"]

KeyCallIdle ==
  [pc |-> "idle", input |-> <<>>, outcome |-> "none", result |-> FALSE,
   entry |-> None, entryAtStart |-> None, queries |-> 0]

RaceIdle == [c \in Callers |-> KeyCallIdle]

\* the page once init() has run: the modal hidden, the key field empty, the
\* confirm button enabled, no call of submitPedido made
SubmitIdle ==
  [rows |-> <<>>, modalOpen |-> FALSE, keyValue |-> <<>>,
   confirmDisabled |-> FALSE, modalError |-> "", notification |-> "none",
   calls |-> <<>>]

ResolveAtRest ==
  /\ scanSt = ScanIdle
  /\ findSt = FindIdle
  /\ prodSt = ProdIdle
  /\ textSt = TextIdle
  /\ raceSt = RaceIdle
  /\ submitSt = SubmitIdle

NoDom == [hasSummary |-> FALSE, cards |-> <<>>]

CartAtRest == dom = NoDom /\ store = EmptyStore /\ cart = CartUnloaded

QuoteIdle ==
  [pc |-> "call",
   row |-> [priceBase |-> 0, priceX10 |-> 0, priceX50 |-> 0, priceX100 |-> 0],
   qty |-> 0, result |-> 0]

PriceAtRest == quote = QuoteIdle

(***************************************************************************)
(* safeCompareSecret run one loop iteration at a time                      *)
(***************************************************************************)
CompareEnter ==
  /\ cmpSt.pc = "call"
  /\ cmpSt' = [cmpSt EXCEPT !.pc = "loop", !.i = 0,
                            !.mismatch = mismatchInit(cmpLeft, cmpRight)]
  /\ UNCHANGED <<cmpLeft, cmpRight, cmpInspected, clockVars, envOk, orderVars, catalogVars,
                 fetchVars, priceVars, cartVars, resolveVars>>

CompareIterate ==
  /\ cmpSt.pc = "loop"
  /\ compareLoopCond(cmpLeft, cmpRight, cmpSt.i, cmpSt.mismatch)
  /\ cmpSt' = [cmpSt EXCEPT
       !.mismatch = compareLoopBody(cmpLeft, cmpRight, cmpSt.i, cmpSt.mismatch),
       !.i = cmpSt.i + 1]
  /\ cmpInspected' = Append(cmpInspected, cmpSt.i)
  /\ UNCHANGED <<cmpLeft, cmpRight, clockVars, envOk, orderVars, catalogVars,
                 fetchVars, priceVars, cartVars, resolveVars>>

CompareReturn ==
  /\ cmpSt.pc = "loop"
  /\ ~compareLoopCond(cmpLeft, cmpRight, cmpSt.i, cmpSt.mismatch)
  /\ cmpSt' = [cmpSt EXCEPT !.pc = "returned", !.result = (cmpSt.mismatch = 0)]
  /\ UNCHANGED <<cmpLeft, cmpRight, cmpInspected, clockVars, envOk, orderVars, catalogVars,
                 fetchVars, priceVars, cartVars, resolveVars>>

(***************************************************************************)
(* The order endpoint and the validator as a state machine.  One request   *)
(* or one direct call of the validator is served at a time; the steps are  *)
(* the stretches of code between two awaits.                               *)
(***************************************************************************)
\* the validator is entered with inputKey by caller
ValEntered(inputKey, caller, e) ==
  [ValIdle EXCEPT
     !.pc = IF e.kind = "await" THEN "resolving" ELSE "done",
     !.caller = caller, !.input = inputKey,
     !.outcome = IF e.kind = "await" THEN "none" ELSE e.kind,
     !.result = e.value, !.path = e.path, !.cacheReads = e.cacheReads,
     !.entryAtStart = companyKeyCache, !.startedAt = now, !.settledAt = now]

\* the request once the validator has settled with (outcome, isValidKey)
ReqValidated(r, outcome, isValidKey) ==
  LET c == postAfterValidate(outcome, isValidKey) IN
  [r EXCEPT !.pc = c.pc, !.response = c.response,
            !.webhookCalls = c.webhookCalls,
            !.validated = IF outcome = "throw" THEN "threw"
                          ELSE IF isValidKey THEN "true" ELSE "false"]

\* POST: a request arrives; runs to the first await that does not settle at once
PostReceive(raw) ==
  /\ req.pc = "idle" /\ val.pc = "idle"
  /\ \E parsed \in {postParse(raw)} :
     IF ~parsed.proceed
     THEN /\ req' = [ReqIdle EXCEPT !.pc = "done", !.body = raw,
                                    !.response = parsed.response]
          /\ UNCHANGED val
     ELSE \E e \in {validateEnter(parsed.key, envOk, companyKeyCache, now)} :
          LET called == [ReqIdle EXCEPT !.pc = "validating", !.body = raw,
                                        !.validatorCalls = 1]
          IN
          /\ val' = ValEntered(parsed.key, "post", e)
          /\ req' = IF e.kind = "await" THEN called
                    ELSE ReqValidated(called, e.kind, e.value)
  /\ UNCHANGED <<envOk, companyKeyCache, clockVars, cmpVars, catalogVars,
                 fetchVars, priceVars, cartVars, resolveVars>>

\* validateCompanyKeyForCurrentCatalog called on its own
DirectValidate(inputKey) ==
  /\ req.pc = "idle" /\ val.pc = "idle"
  /\ \E e \in {validateEnter(inputKey, envOk, companyKeyCache, now)} :
       val' = ValEntered(inputKey, "direct", e)
  /\ UNCHANGED <<envOk, companyKeyCache, req, clockVars, cmpVars, catalogVars,
                 fetchVars, priceVars, cartVars, resolveVars>>

\* getCompanyRecordBySlug settles: the validator caches, decides and returns,
\* and the request that awaits it goes on
ValidateSettle(w) ==
  /\ val.pc = "resolving"
  /\ \E r \in {validateResume(val.input, w, now)} :
     /\ val' = [val EXCEPT !.pc = "done", !.outcome = r.kind, !.result = r.value,
                            !.queries = r.queries,
                            !.cacheWrites = IF r.set THEN 1 ELSE 0,
                            !.page = r.page, !.settledAt = now]
     /\ companyKeyCache' = IF r.set THEN cacheSet(companyKeyCache, r.entry[1])
                           ELSE companyKeyCache
     /\ req' = IF val.caller = "post" THEN ReqValidated(req, r.kind, r.value)
               ELSE req
  /\ UNCHANGED <<envOk, clockVars, cmpVars, catalogVars,
                 fetchVars, priceVars, cartVars, resolveVars>>

\* the call of the webhook settles
WebhookSettle(webhook) ==
  /\ req.pc = "webhook"
  /\ req' = [req EXCEPT !.pc = "done", !.webhook = webhook,
                        !.response = postAfterWebhook(webhook)]
  /\ UNCHANGED <<envOk, companyKeyCache, val, clockVars, cmpVars, catalogVars,
                 fetchVars, priceVars, cartVars, resolveVars>>

\* the response is sent (or the direct call has returned): ready for the next
Close ==
  /\ req.pc = "done" \/ (req.pc = "idle" /\ val.pc = "done")
  /\ req' = ReqIdle
  /\ val' = ValIdle
  /\ UNCHANGED <<envOk, companyKeyCache, clockVars, cmpVars, catalogVars,
                 fetchVars, priceVars, cartVars, resolveVars>>

\* time passes: by a millisecond, or by a millisecond less than the TTL
Tick(d) ==
  /\ ticks < MaxTicks
  /\ ticks' = ticks + 1
  /\ now' = now + d
  /\ UNCHANGED <<envOk, orderVars, cmpVars, catalogVars,
                 fetchVars, priceVars, cartVars, resolveVars>>

TickSteps == {1, CACHE_TTL_MS - 1}

InitOrder ==
  /\ CompareAtRest
  /\ ClockAtRest
  /\ CatalogAtRest
  /\ envOk \in BOOLEAN
  /\ OrderAtRest
  /\ FetchAtRest
  /\ PriceAtRest
  /\ CartAtRest
  /\ ResolveAtRest

NextOrder ==
  \/ \E raw \in SampleRawBodies : PostReceive(raw)
  \/ \E inputKey \in KeyStrings : DirectValidate(inputKey)
  \/ \E w \in KeyWorlds : ValidateSettle(w)
  \/ \E webhook \in {"ok", "notOk", "throws"} : WebhookSettle(webhook)
  \/ Close
  \/ \E d \in TickSteps : Tick(d)

SpecOrder == InitOrder /\ [][NextOrder]_vars

(***************************************************************************)
(* getCatalogData as a state machine: the call up to its first await, and   *)
(* the rest of it once the upstream requests have settled.                 *)
(***************************************************************************)
\* getCatalogData is called
CatalogCall(c) ==
  /\ cat[c].pc = "idle"
  /\ \E e \in {catalogEnter(envOk, cache, now)} :
       cat' = [cat EXCEPT ![c] =
                 [CatIdle EXCEPT
                    !.pc = IF e.kind = "await" THEN "resolving" ELSE "done",
                    !.outcome = IF e.kind = "await" THEN "none" ELSE e.kind,
                    !.data = e.data, !.entryAtStart = cache,
                    !.startedAt = now]]
  /\ UNCHANGED <<cache, envOk, clockVars, cmpVars, orderVars,
                 fetchVars, priceVars, cartVars, resolveVars>>

\* a settling that answers a failed refresh with the entry the call found
CatalogSettleServingStale(c, w) ==
  /\ cat[c].pc = "resolving"
  /\ \E r \in {catalogResume(w, now)} :
       /\ cat' = [cat EXCEPT ![c] =
                    IF r.kind = "throw" /\ cat[c].entryAtStart # None
                    THEN [cat[c] EXCEPT
                            !.pc = "done", !.outcome = "return",
                            !.data = Some(cat[c].entryAtStart[1].data),
                            !.queries = r.queries]
                    ELSE [cat[c] EXCEPT
                            !.pc = "done", !.outcome = r.kind,
                            !.data = r.data, !.queries = r.queries,
                            !.stored = (r.stored # None)]]
       /\ cache' = IF r.stored # None THEN cacheSet(cache, r.stored[1])
                   ELSE cache
  /\ UNCHANGED <<envOk, clockVars, cmpVars, orderVars,
                 fetchVars, priceVars, cartVars, resolveVars>>

\* the upstream requests of a call have settled: it maps, stores and returns
CatalogSettle(c, w) ==
  /\ cat[c].pc = "resolving"
  /\ \E r \in {catalogResume(w, now)} :
       /\ cat' = [cat EXCEPT ![c] =
                    [cat[c] EXCEPT !.pc = "done", !.outcome = r.kind,
                                   !.data = r.data, !.queries = r.queries,
                                   !.stored = (r.stored # None)]]
       /\ cache' = IF r.stored # None THEN cacheSet(cache, r.stored[1])
                   ELSE cache
  /\ UNCHANGED <<envOk, clockVars, cmpVars, orderVars,
                 fetchVars, priceVars, cartVars, resolveVars>>

\* the caller has taken the result
CatalogClose(c) ==
  /\ cat[c].pc = "done"
  /\ cat' = [cat EXCEPT ![c] = CatIdle]
  /\ UNCHANGED <<cache, envOk, clockVars, cmpVars, orderVars,
                 fetchVars, priceVars, cartVars, resolveVars>>

InitCatalog ==
  /\ CompareAtRest
  /\ ClockAtRest
  /\ OrderAtRest
  /\ envOk \in BOOLEAN
  /\ CatalogAtRest
  /\ FetchAtRest
  /\ PriceAtRest
  /\ CartAtRest
  /\ ResolveAtRest

NextCatalog ==
  \/ \E c \in Callers : CatalogCall(c)
  \/ \E c \in Callers, w \in CatalogWorlds : CatalogSettle(c, w)
  \/ \E c \in Callers : CatalogClose(c)
  \/ \E d \in TickSteps : Tick(d)

SpecCatalog == InitCatalog /\ [][NextCatalog]_vars

InitCompare ==
  /\ cmpLeft \in StringsUpTo(CmpChars, MaxLen)
  /\ cmpRight \in StringsUpTo(CmpChars, MaxLen)
  /\ cmpSt = CmpIdle
  /\ cmpInspected = <<>>
  /\ ClockAtRest
  /\ envOk = TRUE
  /\ OrderAtRest
  /\ CatalogAtRest
  /\ FetchAtRest
  /\ PriceAtRest
  /\ CartAtRest
  /\ ResolveAtRest

NextCompare == CompareEnter \/ CompareIterate \/ CompareReturn

SpecCompare == InitCompare /\ [][NextCompare]_vars

(***************************************************************************)
(* fetchWithRetry as a state machine: the steps are the stretches of code  *)
(* between two awaits (of fetch, of the backoff timer).                    *)
(***************************************************************************)
\* fetchWithRetry(url, options, maxRetries) is called: up to the first fetch
FetchCall(maxRetries) ==
  /\ ft.pc = "idle"
  /\ \E h \in {loopHead(0, maxRetries, None)} :
       ft' = [FetchIdle EXCEPT !.pc = h.pc, !.maxRetries = maxRetries,
                               !.attempt = h.attempt, !.error = h.error]
  /\ UNCHANGED <<cmpVars, clockVars, envOk, orderVars, catalogVars,
                 priceVars, cartVars, resolveVars>>

\* the fetch of the current attempt settles with outcome
FetchSettle(outcome) ==
  /\ ft.pc = "fetching"
  /\ \E r \in {attemptSettled(outcome, ft.attempt, ft.maxRetries, ft.lastError)} :
       ft' = [ft EXCEPT !.pc = r.pc, !.attempt = r.attempt,
                        !.lastError = r.lastError, !.response = r.response,
                        !.error = r.error,
                        !.log = Append(ft.log, [attempt |-> ft.attempt,
                                                outcome |-> outcome,
                                                wait |-> r.wait])]
  /\ UNCHANGED <<cmpVars, clockVars, envOk, orderVars, catalogVars,
                 priceVars, cartVars, resolveVars>>

\* the backoff timer fires: the loop goes on with attempt + 1
FetchBackoffElapsed ==
  /\ ft.pc = "backoff"
  /\ \E h \in {loopHead(ft.attempt + 1, ft.maxRetries, ft.lastError)} :
       ft' = [ft EXCEPT !.pc = h.pc, !.attempt = h.attempt, !.error = h.error]
  /\ UNCHANGED <<cmpVars, clockVars, envOk, orderVars, catalogVars,
                 priceVars, cartVars, resolveVars>>

InitFetch ==
  /\ CompareAtRest
  /\ ClockAtRest
  /\ envOk = TRUE
  /\ OrderAtRest
  /\ CatalogAtRest
  /\ FetchAtRest
  /\ PriceAtRest
  /\ CartAtRest
  /\ ResolveAtRest

NextFetch ==
  \/ \E maxRetries \in 0..MaxRetries : FetchCall(maxRetries)
  \/ \E outcome \in AttemptOutcomes : FetchSettle(outcome)
  \/ FetchBackoffElapsed

SpecFetch == InitFetch /\ [][NextFetch]_vars

(***************************************************************************)
(* getUnitPrice applied to a row and a quantity                            *)
(***************************************************************************)
\* the prices a card carries: no tier (0), a tier below, at and above the base
SampleBasePrices == {0, 10}

SampleTierPrices == {0, 3, 5, 10, 12}

SampleRows ==
  [priceBase : SampleBasePrices, priceX10 : SampleTierPrices,
   priceX50 : SampleTierPrices, priceX100 : SampleTierPrices]

QuoteReturn ==
  /\ quote.pc = "call"
  /\ quote' = [quote EXCEPT !.pc = "returned",
                            !.result = getUnitPrice(quote.row, quote.qty)]
  /\ UNCHANGED <<cmpVars, clockVars, envOk, orderVars, catalogVars,
                 fetchVars, cartVars, resolveVars>>

InitPrice ==
  /\ CompareAtRest
  /\ ClockAtRest
  /\ envOk = TRUE
  /\ OrderAtRest
  /\ CatalogAtRest
  /\ FetchAtRest
  /\ CartAtRest
  /\ ResolveAtRest
  /\ \E row \in SampleRows, qty \in 0..MaxQuoteQty :
       quote = [QuoteIdle EXCEPT !.row = row, !.qty = qty]

NextPrice == QuoteReturn

SpecPrice == InitPrice /\ [][NextPrice]_vars

(***************************************************************************)
(* The cart script as a state machine: init, the handlers of the buttons   *)
(* and of the quantity input, and the page being loaded again.  A handler  *)
(* runs to completion; mode is the mode of localStorage while it runs.      *)
(***************************************************************************)
Card(id, complete, priceBase, priceX10, priceX50, priceX100) ==
  [id |-> id, complete |-> complete, priceBase |-> priceBase,
   priceX10 |-> priceX10, priceX50 |-> priceX50, priceX100 |-> priceX100]

\* the pages: three products with tiers; a product with a zero tier, one whose
\* tier price is above its base price, a card without id and one without its
\* buttons; a page without the summary
SampleDoms ==
  {[hasSummary |-> TRUE,
    cards |-> <<Card("p1", TRUE, 10, 8, 0, 0), Card("p2", TRUE, 5, 0, 0, 0),
                Card("p3", TRUE, 2, 0, 0, 1)>>],
   [hasSummary |-> TRUE,
    cards |-> <<Card("p1", TRUE, 10, 0, 5, 3), Card("", TRUE, 1, 0, 0, 0),
                Card("p2", TRUE, 10, 12, 0, 0), Card("p3", FALSE, 1, 0, 0, 0)>>],
   [hasSummary |-> FALSE, cards |-> <<Card("p1", TRUE, 10, 8, 0, 0)>>]}

\* what localStorage holds when the page is first loaded
SampleMarkers == {None, Some("1"), Some("2"), Some("abc")}

SampleStoredStates ==
  {None, Some(CorruptJson),
   Some(JsonObject([id \in {"p1", "p2", "p3", "p9"} |->
          IF id = "p1" THEN Finite(24) ELSE IF id = "p2" THEN Finite(5)
          ELSE IF id = "p3" THEN Finite(-2) ELSE Finite(2)])),
   Some(JsonObject([id \in {"p1", "p2", "p3"} |->
          IF id = "p1" THEN JsonText ELSE IF id = "p2" THEN PlusInfinity
          ELSE Finite(1)]))}

SampleStores == [version : SampleMarkers, state : SampleStoredStates]

\* Number(countEl.value): -1.5, 2.5, 100, NaN and the infinities
SampleInputs ==
  {Finite(-3), Finite(5), Finite(200), NaN, PlusInfinity, MinusInfinity}

\* the modes of localStorage a handler can tell apart: saveState only calls
\* setItem, which throws in "denied" as it does in "readonly"
SaveModes == StorageModes \ {"denied"}

\* the cards init makes a row of
usableCards(cards) == SelectSeq(cards, LAMBDA c : c.id # "" /\ c.complete)

\* the rows of an init that applies no stored quantity
initRowsFresh(cards, stored) ==
  [i \in 1..Len(usableCards(cards)) |-> ProductRow(usableCards(cards)[i])]

\* the rows after the loop of init over the cards, stored being the Map
\* loadQuantities returned
initRows(cards, stored) ==
  [i \in 1..Len(usableCards(cards)) |->
     IF usableCards(cards)[i].id \in DOMAIN stored
     THEN setRowQty(ProductRow(usableCards(cards)[i]),
                    Finite(2 * stored[usableCards(cards)[i].id]))
     ELSE ProductRow(usableCards(cards)[i])]

RowIds == {cart.state[i].id : i \in 1..Len(cart.state)}

\* init()
CartInit(mode) ==
  /\ cart.pc = "unloaded"
  /\ IF ~dom.hasSummary
     THEN /\ cart' = [cart EXCEPT !.pc = "inert", !.loads = cart.loads + 1,
                        !.last = [NoHandler EXCEPT !.op = "init", !.mode = mode,
                                                   !.storeBefore = store]]
          /\ UNCHANGED store
     ELSE \E load \in {loadQuantities(store, mode)} :
          IF load.throws
          THEN /\ cart' = [cart EXCEPT !.pc = "crashed",
                             !.loads = cart.loads + 1,
                             !.last = [NoHandler EXCEPT !.op = "init",
                                         !.mode = mode, !.escaped = TRUE,
                                         !.storeBefore = store,
                                         !.afterLoad = load.store]]
               /\ store' = load.store
          ELSE \E rows \in {initRows(dom.cards, load.map)} :
               \E sv \in {saveState(rows, load.store, mode)} :
                 /\ cart' = [cart EXCEPT !.pc = "ready", !.state = rows,
                               !.view = render(rows, BlankView),
                               !.loads = cart.loads + 1,
                               !.last = [NoHandler EXCEPT !.op = "init",
                                           !.mode = mode, !.saved = sv.saved,
                                           !.storeBefore = store,
                                           !.loaded = load.map,
                                           !.afterLoad = load.store]]
                 /\ store' = sv.store
  /\ UNCHANGED <<dom, cmpVars, clockVars, envOk, orderVars, catalogVars,
                 fetchVars, priceVars, resolveVars>>

\* a handler has put rows in place of the state: render(), then saveState()
Mutated(rows, op, id, value, mode) ==
  \E sv \in {saveState(rows, store, mode)} :
    /\ cart' = [cart EXCEPT !.state = rows, !.view = render(rows, cart.view),
                  !.ops = cart.ops + 1, !.payload = NotBuilt,
                  !.prev = NoPrev,
                  !.last = [NoHandler EXCEPT !.op = op, !.id = id,
                              !.value = value, !.saved = sv.saved,
                              !.qtyBefore = qtyOf(cart.state, id)]]
    /\ store' = sv.store

\* click on the plus button of the card id: updateRow(id, 1)
Increment(id, mode) ==
  /\ cart.pc = "ready" /\ cart.ops < MaxOps /\ id \in RowIds
  /\ Mutated(withRow(cart.state, id, LAMBDA r : updateRowQty(r, 1)),
             "increment", id, Finite(0), mode)
  /\ UNCHANGED <<dom, cmpVars, clockVars, envOk, orderVars, catalogVars,
                 fetchVars, priceVars, resolveVars>>

\* click on the minus button of the card id: updateRow(id, -1)
Decrement(id, mode) ==
  /\ cart.pc = "ready" /\ cart.ops < MaxOps /\ id \in RowIds
  /\ Mutated(withRow(cart.state, id, LAMBDA r : updateRowQty(r, -1)),
             "decrement", id, Finite(0), mode)
  /\ UNCHANGED <<dom, cmpVars, clockVars, envOk, orderVars, catalogVars,
                 fetchVars, priceVars, resolveVars>>

\* input or blur on the quantity field of the card id: setRow(id, value)
DirectSet(id, value, mode) ==
  /\ cart.pc = "ready" /\ cart.ops < MaxOps /\ id \in RowIds
  /\ Mutated(withRow(cart.state, id, LAMBDA r : setRowQty(r, value)),
             "set", id, value, mode)
  /\ UNCHANGED <<dom, cmpVars, clockVars, envOk, orderVars, catalogVars,
                 fetchVars, priceVars, resolveVars>>

\* window.getPresupuestoPayload() is called: buildPresupuestoPayload()
GetPayload ==
  /\ cart.pc = "ready"
  /\ ~cart.payload.built
  /\ cart' = [cart EXCEPT !.payload =
                 [built |-> TRUE, value |-> buildPresupuestoPayload(cart.state)]]
  /\ UNCHANGED <<dom, store, cmpVars, clockVars, envOk, orderVars,
                 catalogVars, fetchVars, priceVars, resolveVars>>

\* the page is loaded again: the script starts anew, localStorage stays
Reload ==
  /\ cart.pc \in {"ready", "inert", "crashed"}
  /\ cart.loads < MaxLoads
  /\ cart' = [CartUnloaded EXCEPT
                 !.loads = cart.loads, !.ops = cart.ops,
                 !.prev = IF cart.pc = "ready" /\ cart.last.saved
                          THEN [saved |-> TRUE,
                                qtys |-> [id \in RowIds |-> qtyOf(cart.state, id)]]
                          ELSE NoPrev]
  /\ UNCHANGED <<dom, store, cmpVars, clockVars, envOk, orderVars,
                 catalogVars, fetchVars, priceVars, resolveVars>>

CardIds == {"p1", "p2", "p3"}

InitCart ==
  /\ CompareAtRest
  /\ ClockAtRest
  /\ envOk = TRUE
  /\ OrderAtRest
  /\ CatalogAtRest
  /\ FetchAtRest
  /\ PriceAtRest
  /\ dom \in SampleDoms
  /\ store \in SampleStores
  /\ cart = CartUnloaded
  /\ ResolveAtRest

NextCart ==
  \/ \E mode \in StorageModes : CartInit(mode)
  \/ \E id \in CardIds, mode \in SaveModes : Increment(id, mode)
  \/ \E id \in CardIds, mode \in SaveModes : Decrement(id, mode)
  \/ \E id \in CardIds, value \in SampleInputs, mode \in SaveModes :
       DirectSet(id, value, mode)
  \/ GetPayload
  \/ Reload

SpecCart == InitCart /\ [][NextCart]_vars

(***************************************************************************)
(* queryAllDatabasePages as a state machine: a step is the stretch of code *)
(* between two awaits of queryDatabase.  The log holds every request with   *)
(* the response it got.                                                     *)
(***************************************************************************)
\* the responses of a page request: with and without results, with and
\* without more, with and without a cursor, and the request failing
SampleScanResponses ==
  {PageThrows} \cup
  {PageResponse(results, more, cursor) :
     results \in {None, Some(<<>>), Some(<<"1">>), Some(<<"2", "3">>)},
     more \in BOOLEAN,
     cursor \in {None, Some(<<"c">>), Some(<<"d">>)}}

\* queryAllDatabasePages(token, dbId, {}) is called
ScanCall ==
  /\ scanSt.pc = "idle"
  /\ scanSt' = scanStart
  /\ UNCHANGED <<cmpVars, clockVars, envOk, orderVars, catalogVars,
                 fetchVars, priceVars, cartVars, findSt, prodSt, textSt,
                 raceSt,
                 submitSt>>

\* the page request in flight settles with response
ScanSettle(response) ==
  /\ scanSt.pc = "requesting"
  /\ Len(scanSt.log) < MaxPages
  /\ scanSt' = scanSettled(scanSt, response)
  /\ UNCHANGED <<cmpVars, clockVars, envOk, orderVars, catalogVars,
                 fetchVars, priceVars, cartVars, findSt, prodSt, textSt,
                 raceSt,
                 submitSt>>

InitScan ==
  /\ CompareAtRest
  /\ ClockAtRest
  /\ envOk = TRUE
  /\ OrderAtRest
  /\ CatalogAtRest
  /\ FetchAtRest
  /\ PriceAtRest
  /\ CartAtRest
  /\ ResolveAtRest

NextScan ==
  \/ ScanCall
  \/ \E response \in SampleScanResponses : ScanSettle(response)

SpecScan == InitScan /\ [][NextScan]_vars

(***************************************************************************)
(* findCompanyPageBySlug as a state machine: a step is the stretch of code *)
(* between two awaits of queryDatabase.                                     *)
(***************************************************************************)
\* the slugs looked for: "ab" and "A b"
SampleSlugs == {<<"a", "b">>, <<"A", " ", "b">>}

\* records of the companies table: slug "Ab"; no slug and name "A b"; slug
\* "b" and name "ab"; slug "a b"; slug "b" and no name
PageSlugAb == CompanyPage(<<"1">>, <<"A", "b">>, <<>>)

PageNameAB ==
  [id |-> <<"2">>,
   properties |-> [n \in {"Name"} |-> TitleOf(<<<<"A", " ", "b">>>>)]]

PageNameAb ==
  CompanyPage(<<"3">>, <<"b">>, [n \in {"Nombre"} |-> TitleOf(<<<<"a", "b">>>>)])

PageSlugASpaceB == CompanyPage(<<"4">>, <<"a", " ", "b">>, <<>>)

PageOther == CompanyPage(<<"5">>, <<"b">>, <<>>)

\* the answers of a candidate query
SampleCandidateAnswers ==
  {Throws, NoResult, Answer(<<PageSlugAb, PageOther>>, FALSE)}

\* the responses of a page request of the scan of the companies table
SampleCompanyScanResponses ==
  {PageThrows,
   PageResponse(None, FALSE, None),
   PageResponse(Some(<<PageOther>>), TRUE, Some(<<"c">>)),
   PageResponse(Some(<<PageOther, PageNameAb>>), TRUE, Some(<<"c">>)),
   PageResponse(Some(<<PageOther>>), FALSE, None),
   PageResponse(Some(<<PageSlugAb, PageNameAB>>), FALSE, None),
   PageResponse(Some(<<PageSlugASpaceB, PageNameAb, PageSlugAb>>), FALSE, None)}

\* findCompanyPageBySlug(token, companiesDbId, slug) is called
FindCall(slug) ==
  /\ findSt.pc = "idle"
  /\ findSt' = findStart(slug)
  /\ UNCHANGED <<cmpVars, clockVars, envOk, orderVars, catalogVars,
                 fetchVars, priceVars, cartVars, scanSt, prodSt, textSt,
                 raceSt,
                 submitSt>>

\* the query of the candidate in flight settles with answer
FindCandidateSettle(answer) ==
  /\ findSt.pc = "candidate"
  /\ findSt' = candidateSettled(findSt, answer)
  /\ UNCHANGED <<cmpVars, clockVars, envOk, orderVars, catalogVars,
                 fetchVars, priceVars, cartVars, scanSt, prodSt, textSt,
                 raceSt,
                 submitSt>>

\* a page request of the fallback scan settles with response
FindScanSettle(response) ==
  /\ findSt.pc = "scanning"
  /\ Len(findSt.scan.log) < MaxPages
  /\ findSt' = findScanSettled(findSt, response)
  /\ UNCHANGED <<cmpVars, clockVars, envOk, orderVars, catalogVars,
                 fetchVars, priceVars, cartVars, scanSt, prodSt, textSt,
                 raceSt,
                 submitSt>>

InitFind ==
  /\ CompareAtRest
  /\ ClockAtRest
  /\ envOk = TRUE
  /\ OrderAtRest
  /\ CatalogAtRest
  /\ FetchAtRest
  /\ PriceAtRest
  /\ CartAtRest
  /\ ResolveAtRest

NextFind ==
  \/ \E slug \in SampleSlugs : FindCall(slug)
  \/ \E answer \in SampleCandidateAnswers : FindCandidateSettle(answer)
  \/ \E response \in SampleCompanyScanResponses : FindScanSettle(response)

SpecFind == InitFind /\ [][NextFind]_vars

(***************************************************************************)
(* The product resolution of getCatalogData as a state machine: a step is  *)
(* the stretch of code between two awaits of an upstream request.          *)
(***************************************************************************)
\* the id of the company found: with a hyphen and capitals, and plain
SampleCompanyIds == {<<"A", "-", "b">>, <<"a", "b">>}

\* what the schema request gives: fetch throwing, a status that is not ok, a
\* schema without relations, and one with the relations Cliente and Empresa
\* to the companies table and Otro to another table
SampleSchemaOutcomes ==
  {[throws |-> TRUE, cause |-> "exception", properties |-> <<>>],
   [throws |-> TRUE, cause |-> "status", properties |-> <<>>],
   [throws |-> FALSE, cause |-> "",
    properties |-> <<[name |-> "Name", type |-> "title", database_id |-> None]>>],
   [throws |-> FALSE, cause |-> "",
    properties |-> <<[name |-> "Otro", type |-> "relation",
                      database_id |-> Some(<<"b">>)],
                     [name |-> "Cliente", type |-> "relation",
                      database_id |-> Some(<<"A", "b">>)],
                     [name |-> "Empresa", type |-> "relation",
                      database_id |-> Some(<<"a", "-", "b">>)]>>]}

\* a product whose property Company carries relation ids without being typed
\* a relation, and one related through a property no candidate names
ProductUntyped ==
  [id |-> <<"4">>,
   properties |-> [n \in {"Name", "Company"} |->
                     IF n = "Name" THEN TitleOf(<<<<"4">>>>)
                     ELSE [NoFields EXCEPT !.type = "rollup",
                                           !.relation = Some(<<<<"A", "b">>>>)]]]

ProductVendedor == ProductPage(<<"5">>, "Vendedor", <<<<"b">>, <<"a", "-", "b">>>>)

\* a second product related by the alias Empresa
ProductEmpresaMore == ProductPage(<<"6">>, "Empresa", <<<<"A", "-", "b">>>>)

\* what a filtered query is answered: a failure, no match, the one match, and
\* the first response page of the matches with has_more set
SampleFilteredAnswers ==
  {Throws, NoResult, Answer(<<ProductEmpresa>>, FALSE),
   Answer(<<ProductEmpresa>>, TRUE)}

\* the matches of a filtered query that its response leaves out: some when
\* it says has_more, none when it does not
unsentOf(answer) ==
  IF ~answer.throws /\ answer.has_more THEN <<ProductEmpresaMore>> ELSE <<>>

SampleProductScanResponses ==
  {PageThrows,
   PageResponse(Some(<<ProductEmpresa, ProductOther>>), TRUE, Some(<<"c">>)),
   PageResponse(Some(<<ProductCliente>>), FALSE, None),
   PageResponse(Some(<<ProductOther>>), FALSE, None),
   PageResponse(Some(<<ProductUntyped, ProductOther, ProductVendedor>>),
                FALSE, None)}

\* getCatalogData has found the company
ProdCall(companyId) ==
  /\ prodSt.pc = "idle"
  /\ prodSt' = prodStart(companyId)
  /\ UNCHANGED <<cmpVars, clockVars, envOk, orderVars, catalogVars,
                 fetchVars, priceVars, cartVars, scanSt, findSt, textSt,
                 raceSt,
                 submitSt>>

\* getRelationPropertiesToCompaniesDb settles
ProdSchemaSettle(schema) ==
  /\ prodSt.pc = "schema"
  /\ prodSt' = schemaSettled(prodSt, schema)
  /\ UNCHANGED <<cmpVars, clockVars, envOk, orderVars, catalogVars,
                 fetchVars, priceVars, cartVars, scanSt, findSt, textSt,
                 raceSt,
                 submitSt>>

\* the filtered query in flight settles with answer
ProdFilteredSettle(answer) ==
  /\ prodSt.pc = "filtered"
  /\ prodSt' = [filteredSettled(prodSt, answer) EXCEPT
                  !.unsent = unsentOf(answer)]
  /\ UNCHANGED <<cmpVars, clockVars, envOk, orderVars, catalogVars,
                 fetchVars, priceVars, cartVars, scanSt, findSt, textSt,
                 raceSt,
                 submitSt>>

\* a page request of the full scan settles with response
ProdScanSettle(response) ==
  /\ prodSt.pc = "scanning"
  /\ Len(prodSt.scan.log) < MaxPages
  /\ prodSt' = prodScanSettled(prodSt, response)
  /\ UNCHANGED <<cmpVars, clockVars, envOk, orderVars, catalogVars,
                 fetchVars, priceVars, cartVars, scanSt, findSt, textSt,
                 raceSt,
                 submitSt>>

InitProd ==
  /\ CompareAtRest
  /\ ClockAtRest
  /\ envOk = TRUE
  /\ OrderAtRest
  /\ CatalogAtRest
  /\ FetchAtRest
  /\ PriceAtRest
  /\ CartAtRest
  /\ ResolveAtRest

NextProd ==
  \/ \E companyId \in SampleCompanyIds : ProdCall(companyId)
  \/ \E schema \in SampleSchemaOutcomes : ProdSchemaSettle(schema)
  \/ \E answer \in SampleFilteredAnswers : ProdFilteredSettle(answer)
  \/ \E response \in SampleProductScanResponses : ProdScanSettle(response)

SpecProd == InitProd /\ [][NextProd]_vars

(***************************************************************************)
(* Concurrent calls: two callers of getCatalogData and two callers of       *)
(* validateCompanyKeyForCurrentCatalog, each call in two steps, up to its   *)
(* first await and from the settling of its upstream requests on.  The      *)
(* upstream may answer the two calls differently.                           *)
(***************************************************************************)
\* the upstream as a resolution of the catalog finds it: one product, two
\* products, none, and the scan failing
RaceCatalogWorlds ==
  {[cand |-> FoundAtOnce, scan |-> <<Throws>>,
    schema |-> [throws |-> FALSE, properties |-> <<>>],
    filtered |-> [q \in FilteredQueries |->
                    IF q[1] = "Empresa" THEN Answer(pages, FALSE) ELSE NoResult],
    productScan |-> ps] :
     pages \in {<<ProductEmpresa>>, <<ProductEmpresa, ProductCliente>>, <<>>},
     ps \in {<<Answer(<<ProductOther>>, FALSE)>>}}
  \cup {[cand |-> FoundAtOnce, scan |-> <<Throws>>,
         schema |-> [throws |-> FALSE, properties |-> <<>>],
         filtered |-> [q \in FilteredQueries |-> Throws],
         productScan |-> <<Throws>>]}

\* the upstream as a resolution of the key finds it: the key "a", the key
\* "aa", and every request failing
RaceKeyWorlds ==
  {[cand |-> <<Answer(<<CompanyPage(<<"A", "-", "b">>, companySlug,
                          [n \in {"Clave"} |-> RichTextOf(<<k>>)])>>, FALSE),
               NoResult, NoResult, NoResult>>,
    scan |-> <<Throws>>] : k \in {<<"a">>, <<"a", "a">>}}
  \cup {[cand |-> <<Throws, Throws, Throws, Throws>>, scan |-> <<Throws>>]}

\* validateCompanyKeyForCurrentCatalog(inputKey) is called by c
KeyCall(c, inputKey) ==
  /\ raceSt[c].pc = "idle"
  /\ \E e \in {validateEnter(inputKey, envOk, companyKeyCache, now)} :
       raceSt' = [raceSt EXCEPT ![c] =
                    [KeyCallIdle EXCEPT
                       !.pc = IF e.kind = "await" THEN "resolving" ELSE "done",
                       !.input = inputKey,
                       !.outcome = IF e.kind = "await" THEN "none" ELSE e.kind,
                       !.result = e.value,
                       !.entryAtStart = companyKeyCache]]
  /\ UNCHANGED <<cmpVars, clockVars, envOk, orderVars, catalogVars,
                 fetchVars, priceVars, cartVars, scanSt, findSt, prodSt,
                 textSt,
                 submitSt>>

\* getCompanyRecordBySlug settles for c: the key is cached and compared
KeySettle(c, w) ==
  /\ raceSt[c].pc = "resolving"
  /\ \E r \in {validateResume(raceSt[c].input, w, now)} :
       /\ raceSt' = [raceSt EXCEPT ![c] =
                      [raceSt[c] EXCEPT !.pc = "done", !.outcome = r.kind,
                                        !.result = r.value, !.entry = r.entry,
                                        !.queries = r.queries]]
       /\ companyKeyCache' =
            IF r.set THEN cacheSet(companyKeyCache, r.entry[1])
            ELSE companyKeyCache
  /\ UNCHANGED <<cmpVars, clockVars, envOk, val, req, catalogVars,
                 fetchVars, priceVars, cartVars, scanSt, findSt, prodSt,
                 textSt,
                 submitSt>>

InitRace ==
  /\ CompareAtRest
  /\ ClockAtRest
  /\ envOk = TRUE
  /\ OrderAtRest
  /\ CatalogAtRest
  /\ FetchAtRest
  /\ PriceAtRest
  /\ CartAtRest
  /\ ResolveAtRest

NextRace ==
  \/ \E c \in Callers : CatalogCall(c)
  \/ \E c \in Callers, w \in RaceCatalogWorlds : CatalogSettle(c, w)
  \/ \E c \in Callers : KeyCall(c, <<"a">>)
  \/ \E c \in Callers, w \in RaceKeyWorlds : KeySettle(c, w)
  \/ Tick(1)

SpecRace == InitRace /\ [][NextRace]_vars

\* a complete entry of the catalog cache: the data of one call, company and
\* products, with a timestamp
CompleteCatalogEntry(slot) ==
  /\ Len(slot) = 1
  /\ DOMAIN slot[1] = {"data", "timestamp"}
  /\ DOMAIN slot[1].data = {"company", "products"}
  /\ slot[1].timestamp \in 0..(MaxTicks + 1)

\* a complete entry of the key cache: a key with a timestamp
CompleteKeyEntry(slot) ==
  /\ Len(slot) = 1
  /\ DOMAIN slot[1] = {"key", "timestamp"}
  /\ slot[1].timestamp \in 0..(MaxTicks + 1)

\* C27: under any interleaving of two concurrent getCatalogData calls and of
\* two concurrent key validations for the one company, each cache slot holds
\* nothing or one complete entry; a slot changes only in the step in which
\* one call settles, and then holds exactly what that call resolved, its
\* data (or key) with the time of its settling, nothing of what the slot
\* held before or of the other call; and every call that stores leaves its
\* own entry in the slot, so that the entry left when all calls are through
\* is the one of the call that stored last.  The race costs only the
\* upstream queries that both calls make.
C27_RaceKeepsEntriesWhole ==
  /\ [](/\ cache = None \/ CompleteCatalogEntry(cache)
        /\ companyKeyCache = None \/ CompleteKeyEntry(companyKeyCache))
  /\ [][/\ \A c \in Callers :
             (cat[c].pc = "resolving" /\ cat'[c].pc = "done"
              /\ cat'[c].stored)
               => cache' = Some([data |-> cat'[c].data[1],
                                 timestamp |-> now])
        /\ cache' # cache
             => \E c \in Callers :
                  /\ cat[c].pc = "resolving" /\ cat'[c].pc = "done"
                  /\ cat'[c].stored
                  /\ \A d \in Callers \ {c} : cat'[d] = cat[d]
        /\ \A c \in Callers :
             (raceSt[c].pc = "resolving" /\ raceSt'[c].pc = "done"
              /\ raceSt'[c].outcome = "return")
               => /\ raceSt'[c].entry # None
                  /\ companyKeyCache' = raceSt'[c].entry
                  /\ raceSt'[c].entry[1].timestamp = now
        /\ companyKeyCache' # companyKeyCache
             => \E c \in Callers :
                  /\ raceSt[c].pc = "resolving" /\ raceSt'[c].pc = "done"
                  /\ raceSt'[c].outcome = "return"
                  /\ \A d \in Callers \ {c} : raceSt'[d] = raceSt[d]
       ]_vars

\* both calls of each kind started on an empty slot, both resolved upstream
\* and stored, with different data and different keys, at different times
C27_Witness ==
  /\ \A c \in Callers :
       /\ cat[c].pc = "done" /\ cat[c].stored /\ cat[c].entryAtStart = None
       /\ cat[c].queries > 0
       /\ raceSt[c].pc = "done" /\ raceSt[c].outcome = "return"
       /\ raceSt[c].entryAtStart = None
       /\ raceSt[c].queries > 0
  /\ cat["first"].data # cat["second"].data
  /\ raceSt["first"].entry[1].key # raceSt["second"].entry[1].key
  /\ raceSt["first"].entry[1].timestamp < raceSt["second"].entry[1].timestamp
  /\ cache # None /\ cache[1].data = cat["second"].data[1]
  /\ companyKeyCache = raceSt["second"].entry

\* C32: whenever the payload is built for a cart with a row selected, the
\* total that render left on the page is the payload's total and the savings
\* it left on the page is the payload's discount.
C32_RenderAgreesWithPayload ==
  (cart.pc = "ready" /\ cart.payload.built /\ cart.payload.value # None) =>
    /\ cart.view.total = cart.payload.value[1].total
    /\ cart.view.savings = cart.payload.value[1].discount

\* a payload built for a rendered cart of two selected rows with a discount
C32_Witness ==
  /\ cart.pc = "ready"
  /\ cart.payload.built
  /\ cart.payload.value # None
  /\ Len(cart.payload.value[1].items) >= 2
  /\ cart.payload.value[1].discount > 0
  /\ Len(cart.view.lines) = Len(cart.payload.value[1].items)
  /\ ~cart.view.savingsHidden

(***************************************************************************)
(* The order modal as the user and the network drive it                    *)
(***************************************************************************)
\* the rows of the cart when the modal is used: nothing selected, or two
\* units of one product
SampleSubmitRows ==
  {<<[ProductRow(Card("p1", TRUE, 10, 0, 0, 0)) EXCEPT !.qty = q,
                                                      !.countValue = q,
                                                      !.minusDisabled = (q = 0)]>> :
     q \in {0, 2}}

\* what the user leaves in the key field
SampleKeyValues == {<<>>, <<" ">>, <<"a">>}

\* what the endpoint answers
SamplePedidoResponses ==
  {PedidoRejection,
   PedidoResponse(401, Some([code |-> "INVALID_KEY", success |-> FALSE])),
   PedidoResponse(200, Some([code |-> "", success |-> TRUE])),
   PedidoResponse(502, Some([code |-> "WEBHOOK_ERROR", success |-> FALSE])),
   PedidoResponse(200, None)}

\* the calls of submitPedido waiting for their fetch
InFlight == {i \in 1..Len(submitSt.calls) : submitSt.calls[i].pc = "fetching"}

\* submitBtn click
SubmitBtnClick ==
  /\ submitSt' = openModal(submitSt)
  /\ submitSt' # submitSt
  /\ UNCHANGED <<cmpVars, clockVars, envOk, orderVars, catalogVars,
                 fetchVars, priceVars, cartVars, scanSt, findSt, prodSt,
                 textSt, raceSt>>

\* the user edits the key field of the open modal
KeyInput(value) ==
  /\ submitSt.modalOpen
  /\ submitSt.keyValue # value
  /\ submitSt' = [submitSt EXCEPT !.keyValue = value]
  /\ UNCHANGED <<cmpVars, clockVars, envOk, orderVars, catalogVars,
                 fetchVars, priceVars, cartVars, scanSt, findSt, prodSt,
                 textSt, raceSt>>

\* cancelBtn click, or a click on the backdrop of the modal
CancelClick ==
  /\ submitSt.modalOpen
  /\ submitSt' = closeModal(submitSt)
  /\ UNCHANGED <<cmpVars, clockVars, envOk, orderVars, catalogVars,
                 fetchVars, priceVars, cartVars, scanSt, findSt, prodSt,
                 textSt, raceSt>>

\* keydown in the key field of the open modal
KeyDown(key) ==
  /\ submitSt.modalOpen
  /\ \/ /\ key = "Enter"
        /\ Len(submitSt.calls) < MaxSubmits
        /\ submitSt' = submitEnter(submitSt)
        /\ submitSt' # submitSt
     \/ /\ key = "Escape"
        /\ submitSt' = closeModal(submitSt)
  /\ UNCHANGED <<cmpVars, clockVars, envOk, orderVars, catalogVars,
                 fetchVars, priceVars, cartVars, scanSt, findSt, prodSt,
                 textSt, raceSt>>

\* confirmBtn click: a disabled button dispatches no click
ConfirmClick ==
  /\ submitSt.modalOpen
  /\ ~submitSt.confirmDisabled
  /\ Len(submitSt.calls) < MaxSubmits
  /\ submitSt' = submitEnter(submitSt)
  /\ submitSt' # submitSt
  /\ UNCHANGED <<cmpVars, clockVars, envOk, orderVars, catalogVars,
                 fetchVars, priceVars, cartVars, scanSt, findSt, prodSt,
                 textSt, raceSt>>

\* the request of call i settles
PedidoFetchSettle(i, response) ==
  /\ i \in InFlight
  /\ submitSt' = submitFetchSettled(submitSt, i, response)
  /\ UNCHANGED <<cmpVars, clockVars, envOk, orderVars, catalogVars,
                 fetchVars, priceVars, cartVars, scanSt, findSt, prodSt,
                 textSt, raceSt>>

\* response.json() of call i settles
PedidoJsonSettle(i) ==
  /\ i \in 1..Len(submitSt.calls)
  /\ submitSt.calls[i].pc = "json"
  /\ submitSt' = submitJsonSettled(submitSt, i)
  /\ UNCHANGED <<cmpVars, clockVars, envOk, orderVars, catalogVars,
                 fetchVars, priceVars, cartVars, scanSt, findSt, prodSt,
                 textSt, raceSt>>

\* notificationCloseBtn click, or a click on the backdrop of the notification
NotificationClose ==
  /\ submitSt.notification # "none"
  /\ submitSt' = [submitSt EXCEPT !.notification = "none"]
  /\ UNCHANGED <<cmpVars, clockVars, envOk, orderVars, catalogVars,
                 fetchVars, priceVars, cartVars, scanSt, findSt, prodSt,
                 textSt, raceSt>>

InitSubmit ==
  /\ CompareAtRest
  /\ ClockAtRest
  /\ envOk = TRUE
  /\ OrderAtRest
  /\ CatalogAtRest
  /\ FetchAtRest
  /\ PriceAtRest
  /\ CartAtRest
  /\ scanSt = ScanIdle
  /\ findSt = FindIdle
  /\ prodSt = ProdIdle
  /\ textSt = TextIdle
  /\ raceSt = RaceIdle
  /\ \E rows \in SampleSubmitRows : submitSt = [SubmitIdle EXCEPT !.rows = rows]

NextSubmit ==
  \/ SubmitBtnClick
  \/ \E value \in SampleKeyValues : KeyInput(value)
  \/ ConfirmClick
  \/ CancelClick
  \/ \E key \in {"Enter", "Escape"} : KeyDown(key)
  \/ \E i \in 1..MaxSubmits, response \in SamplePedidoResponses :
       PedidoFetchSettle(i, response)
  \/ \E i \in 1..MaxSubmits : PedidoJsonSettle(i)
  \/ NotificationClose

SpecSubmit == InitSubmit /\ [][NextSubmit]_vars

\* C31: at most one call of submitPedido is waiting for its /api/pedido
\* request at any time.
C31_AtMostOneInFlight == Cardinality(InFlight) <= 1

\* the confirm button is disabled with a request in flight, the modal still
\* open on the key field
C31_Witness ==
  /\ submitSt.confirmDisabled
  /\ submitSt.modalOpen
  /\ Cardinality(InFlight) = 1

(***************************************************************************)
(* getTextPropertyValue applied to a property                              *)
(***************************************************************************)
\* what a title or rich_text member holds: nothing, an empty array, an item
\* with an empty plain_text, an item with text
SampleTextArrays(text) == {None, Some(<<>>), Some(<<<<>>>>), Some(<<text>>)}

\* what a select name, a formula string or a url holds
SampleTextMembers(text) == {None, Some(<<>>), Some(text)}

\* no property, and the properties with every combination of members
SampleTextProperties ==
  {None} \cup
  {Some([type |-> "", title |-> t, rich_text |-> r, select |-> sel,
         formula |-> f, url |-> u, relation |-> None]) :
     t \in SampleTextArrays(<<"t">>), r \in SampleTextArrays(<<"r">>),
     sel \in SampleTextMembers(<<"s">>), f \in SampleTextMembers(<<"f">>),
     u \in SampleTextMembers(<<"u">>)}

TextReturn ==
  /\ textSt.pc = "call"
  /\ textSt' = [textSt EXCEPT !.pc = "returned",
                  !.result = getTextPropertyValue(textSt.property)]
  /\ UNCHANGED <<cmpVars, clockVars, envOk, orderVars, catalogVars,
                 fetchVars, priceVars, cartVars, scanSt, findSt, prodSt,
                 raceSt,
                 submitSt>>

InitText ==
  /\ CompareAtRest
  /\ ClockAtRest
  /\ envOk = TRUE
  /\ OrderAtRest
  /\ CatalogAtRest
  /\ FetchAtRest
  /\ PriceAtRest
  /\ CartAtRest
  /\ scanSt = ScanIdle
  /\ findSt = FindIdle
  /\ prodSt = ProdIdle
  /\ raceSt = RaceIdle
  /\ submitSt = SubmitIdle
  /\ \E property \in SampleTextProperties :
       textSt = [TextIdle EXCEPT !.pc = "call", !.property = property]

NextText == TextReturn

SpecText == InitText /\ [][NextText]_vars

(***************************************************************************)
(* Properties                                                              *)
(***************************************************************************)
\* a string that is empty once trimmed
AllWhitespace(str) == \A i \in 1..Len(str) : str[i] = " "

\* C1: validateCompanyKeyForCurrentCatalog returns false for every input that
\* is empty after trimming, whatever key is stored or cached and whether or not
\* the environment is configured, and it issues no upstream query and neither
\* reads nor writes the key cache.
C1_EmptyInputIsInvalid ==
  (val.pc # "idle" /\ AllWhitespace(val.input)) =>
    /\ val.pc = "done"
    /\ val.outcome = "return"
    /\ val.result = FALSE
    /\ val.queries = 0
    /\ val.cacheReads = 0
    /\ val.cacheWrites = 0
    /\ companyKeyCache = val.entryAtStart

\* a blank input was rejected while the cache held an entry with an empty key
C1_Witness ==
  /\ val.pc = "done"
  /\ val.input = <<" ">>
  /\ val.result = FALSE
  /\ companyKeyCache # None
  /\ companyKeyCache[1].key = <<>>

\* the key a settled call decided against: the cached one, or the one of the
\* company record it fetched
StoredKey ==
  IF val.path = "cached" THEN val.entryAtStart[1].key
  ELSE parseCompanyKey(val.page[1])

\* C2: key validation fails closed.  For an input that is not empty once
\* trimmed, the validator returns true exactly when the stored key (trimmed) is
\* not empty and equals the trimmed input; with an empty or missing stored key
\* it returns false, on the cached path and on the freshly fetched path.
C2_FailsClosed ==
  (val.pc = "done" /\ val.outcome = "return" /\ ~AllWhitespace(val.input)) =>
    /\ val.path \in {"cached", "fetched"}
    /\ val.result = (StoredKey # <<>> /\ StoredKey = trim(val.input))
    /\ StoredKey = <<>> => val.result = FALSE

\* an input with surrounding whitespace was accepted against the cached key
C2_Witness ==
  /\ val.pc = "done"
  /\ val.path = "cached"
  /\ val.result = TRUE
  /\ val.input # trim(val.input)

\* C3: the webhook is called only after the validator returned true for the
\* same request; when the validator returns false the response is 401
\* INVALID_KEY and the webhook is not called.
C3_WebhookOnlyAfterValidKey ==
  /\ req.webhookCalls > 0 =>
       /\ req.validated = "true"
       /\ val.caller = "post" /\ val.pc = "done"
       /\ val.outcome = "return" /\ val.result = TRUE
  /\ (val.caller = "post" /\ val.pc = "done" /\ val.outcome = "return"
        /\ val.result = FALSE) =>
       /\ req.pc = "done"
       /\ req.response = Response(401, "INVALID_KEY")
       /\ req.webhookCalls = 0

\* the webhook was called for a request whose key was checked against a
\* freshly fetched company record
C3_Witness ==
  /\ req.webhookCalls = 1
  /\ val.path = "fetched"
  /\ req.response = Response(200, "")

\* C4: when the call of the webhook fails, by a status that is not 2xx or by
\* the call itself throwing, the order endpoint responds 502 WEBHOOK_ERROR.
C4_WebhookFailureIs502 ==
  (req.pc = "done" /\ req.webhook \in {"notOk", "throws"}) =>
    req.response = Response(502, "WEBHOOK_ERROR")

\* the call of the webhook threw and the request was answered 500
C4_Witness ==
  /\ req.pc = "done"
  /\ req.webhook = "throws"
  /\ req.webhookCalls = 1
  /\ req.response = Response(500, "INTERNAL_ERROR")

\* the body of a request as C5 describes a malformed one
MalformedKey(value) ==
  \/ Member(value, "key").type # "string"
  \/ AllWhitespace(Member(value, "key").str)

MalformedPresupuesto(p) ==
  \/ p.type # "object"
  \/ Member(p, "companyName").type # "string"
  \/ Member(p, "companySlug").type # "string"
  \/ Member(p, "items").type # "array"
  \/ Member(p, "items").length = 0
  \/ \E f \in {"subtotal", "discount", "total"} : Member(p, f).type # "number"

MalformedBody(raw) ==
  \/ raw.kind \in {"empty", "text"}
  \/ /\ raw.kind = "json"
     /\ \/ MalformedKey(raw.value)
        \/ MalformedPresupuesto(Member(raw.value, "presupuesto"))

\* C5: the order endpoint responds 400 INVALID_PAYLOAD when the body is empty,
\* is not JSON, has a missing, non-string or blank key, or has a presupuesto
\* that fails the shape check; then neither the validator nor the webhook is
\* invoked.
C5_MalformedBodyIs400 ==
  (req.pc # "idle" /\ MalformedBody(req.body)) =>
    /\ req.pc = "done"
    /\ req.response = Response(400, "INVALID_PAYLOAD")
    /\ req.validatorCalls = 0
    /\ req.webhookCalls = 0
    /\ val = ValIdle

\* a body with a good key and a presupuesto whose items array is empty
C5_Witness ==
  /\ req.pc = "done"
  /\ req.body.kind = "json"
  /\ ~MalformedKey(req.body.value)
  /\ Member(Member(req.body.value, "presupuesto"), "items") = JArray(0)
  /\ req.response.status = 400

\* C6: safeCompareSecret(a, b) is true exactly when a and b are the same
\* string; compare(s, s) is true and compare(s, s + x) is false.
C6_CompareIsEquality ==
  cmpSt.pc = "returned" => (cmpSt.result <=> cmpLeft = cmpRight)

\* a string was compared with itself extended by the character U+0000
C6_Witness ==
  /\ cmpSt.pc = "returned"
  /\ Len(cmpLeft) > 0
  /\ cmpRight = Append(cmpLeft, "NUL")
  /\ cmpSt.result = FALSE

\* C7: safeCompareSecret does not short-circuit: the loop inspects the
\* positions 0 .. max(len(a), len(b)) - 1, each once, whatever the contents
\* and wherever the first mismatch is, also when the lengths differ.
C7_FullScan ==
  cmpSt.pc = "returned" =>
    cmpInspected = [k \in 1..Max(Len(cmpLeft), Len(cmpRight)) |-> k - 1]

\* two strings of different lengths that differ at their first character
C7_Witness ==
  /\ cmpSt.pc = "returned"
  /\ Len(cmpLeft) = 1 /\ Len(cmpRight) = 2
  /\ cmpLeft[1] # cmpRight[1]
  /\ Len(cmpInspected) = 2

\* the age, at the start of the validator call, of the entry it found cached
AgeAtStart == val.startedAt - val.entryAtStart[1].timestamp

\* C10: once a key is cached (even an empty one), a call with a non-empty
\* input made while the entry's age is below the TTL issues no upstream query
\* and decides against the cached key; a call at age >= TTL resolves the
\* company record again and, when the record is resolved, replaces the cached
\* entry by the record's key stamped with the time of the replacement.
C10_KeyCacheTTL ==
  (val.pc # "idle" /\ ~AllWhitespace(val.input) /\ val.entryAtStart # None) =>
    /\ AgeAtStart < CACHE_TTL_MS =>
         /\ val.pc = "done" /\ val.outcome = "return"
         /\ val.queries = 0 /\ val.cacheWrites = 0
         /\ companyKeyCache = val.entryAtStart
         /\ val.result = (val.entryAtStart[1].key # <<>>
                            /\ val.entryAtStart[1].key = trim(val.input))
    /\ AgeAtStart >= CACHE_TTL_MS =>
         \/ val.pc = "resolving"
         \/ /\ val.pc = "done" /\ val.queries > 0
            /\ val.outcome = "return" =>
                 /\ val.cacheWrites = 1
                 /\ companyKeyCache =
                      Some([key |-> parseCompanyKey(val.page[1]),
                            timestamp |-> val.settledAt])

\* a cached empty key, found exactly TTL old, was replaced by a fetched key
C10_Witness ==
  /\ val.pc = "done"
  /\ val.entryAtStart # None
  /\ val.entryAtStart[1].key = <<>>
  /\ AgeAtStart = CACHE_TTL_MS
  /\ val.outcome = "return"
  /\ companyKeyCache # val.entryAtStart
  /\ companyKeyCache[1].key # <<>>

\* C8: the catalog cache never holds an entry whose product list is empty.
\* A call of getCatalogData that fetched zero products stored nothing, a call
\* served from the cache returns at least one product, and while the cache is
\* as the zero-product call found it a next call would not be a hit: it would
\* fetch from upstream again.
C8_NoEmptyCatalogCached ==
  /\ cache # None => Len(cache[1].data.products) > 0
  /\ \A c \in Callers :
       /\ (cat[c].pc = "done" /\ cat[c].outcome = "return"
             /\ Len(cat[c].data[1].products) = 0) =>
            /\ cat[c].queries > 0
            /\ ~cat[c].stored
            /\ cache = cat[c].entryAtStart =>
                 catalogEnter(envOk, cache, now).kind = "await"
       /\ (cat[c].pc = "done" /\ cat[c].outcome = "return"
             /\ cat[c].queries = 0) =>
            Len(cat[c].data[1].products) > 0

\* a call fetched zero products, right after an earlier call had done so too,
\* and the cache is still empty
C8_Witness ==
  /\ cache = None
  /\ \A c \in Callers :
       /\ cat[c].pc = "done" /\ cat[c].outcome = "return"
       /\ cat[c].queries > 0
       /\ Len(cat[c].data[1].products) = 0

\* the age, at the start of caller c's call, of the entry it found cached
CatalogAgeAtStart(c) == cat[c].startedAt - cat[c].entryAtStart[1].timestamp

\* C9: a stored catalog carries the time of its storing, and a call made
\* while the cached entry's age is below the TTL returns the entry's data
\* with no upstream request and leaves the cache alone; a call made at age
\* >= TTL (the boundary included) is a miss: it fetches from upstream.
C9_CatalogCacheTTL ==
  /\ cache # None => cache[1].timestamp <= now
  /\ \A c \in Callers :
       /\ (cat[c].pc = "done" /\ cat[c].stored) =>
            /\ cat[c].outcome = "return"
            /\ Len(cat[c].data[1].products) > 0
            /\ cache # None
            /\ cache[1].timestamp >= cat[c].startedAt
       /\ (cat[c].pc # "idle" /\ cat[c].entryAtStart # None) =>
            /\ CatalogAgeAtStart(c) < CACHE_TTL_MS =>
                 /\ cat[c].pc = "done" /\ cat[c].outcome = "return"
                 /\ cat[c].data = Some(cat[c].entryAtStart[1].data)
                 /\ cat[c].queries = 0
                 /\ ~cat[c].stored
            /\ CatalogAgeAtStart(c) >= CACHE_TTL_MS =>
                 \/ cat[c].pc = "resolving"
                 \/ cat[c].pc = "done" /\ cat[c].queries > 0

\* one call was served from an entry a millisecond short of the TTL, and
\* another call, made when the entry was exactly TTL old, fetched again
C9_Witness ==
  \E c, d \in Callers :
    /\ cat[c].pc = "done" /\ cat[c].entryAtStart # None
    /\ CatalogAgeAtStart(c) = CACHE_TTL_MS - 1
    /\ cat[c].queries = 0
    /\ cat[d].pc = "done" /\ cat[d].entryAtStart # None
    /\ CatalogAgeAtStart(d) = CACHE_TTL_MS
    /\ cat[d].queries > 0

\* C34: a call of getCatalogData that finds an entry of age >= TTL goes
\* upstream.  When the refresh fails the call throws: it returns no data,
\* the entry it found included, and stores nothing; what it returns when the
\* refresh succeeds it fetched, and stored when it has products.  The step
\* in which a call fails leaves the cache as it was.
C34_StaleEntryNeverServed ==
  /\ [](\A c \in Callers :
         (cat[c].pc = "done" /\ cat[c].entryAtStart # None
            /\ CatalogAgeAtStart(c) >= CACHE_TTL_MS) =>
           /\ cat[c].outcome \in {"return", "throw"}
           /\ cat[c].queries > 0
           /\ cat[c].outcome = "throw" =>
                cat[c].data = None /\ ~cat[c].stored
           /\ (cat[c].outcome = "return"
                 /\ Len(cat[c].data[1].products) > 0) => cat[c].stored)
  /\ [][\A c \in Callers :
          (cat[c].pc # "done" /\ cat'[c].pc = "done"
             /\ cat'[c].outcome = "throw") => cache' = cache]_vars

\* a call found the entry exactly TTL old, its refresh failed, and the entry
\* is still the one cached
C34_Witness ==
  \E c \in Callers :
    /\ cat[c].pc = "done" /\ cat[c].entryAtStart # None
    /\ CatalogAgeAtStart(c) = CACHE_TTL_MS
    /\ cat[c].outcome = "throw"
    /\ cat[c].queries > 0
    /\ cache = cat[c].entryAtStart

\* an attempt's outcome after which the claims C11 to C13 expect a retry
RetryableOutcome(o) ==
  \/ o.kind = "exception"
  \/ o.kind = "response" /\ (o.status = 429 \/ o.status >= 500)

\* C11: in fetchWithRetry an attempt that yields an ok response, or a status
\* that is not ok and neither 429 nor >= 500, ends the call at once: that
\* response is returned and no further attempt is made.  An attempt that
\* yields 429, a status >= 500 or a transport exception, made while fewer
\* than maxRetries attempts have been made, is followed by another attempt.
C11_RetryOrReturn ==
  \A i \in 1..Len(ft.log) :
    /\ ft.log[i].attempt = i - 1
    /\ ~RetryableOutcome(ft.log[i].outcome) =>
         /\ i = Len(ft.log)
         /\ ft.pc = "returned"
         /\ ft.response = Some(ft.log[i].outcome)
    /\ (RetryableOutcome(ft.log[i].outcome) /\ i < ft.maxRetries) =>
         \/ i < Len(ft.log)
         \/ ft.pc = "backoff"
         \/ ft.pc = "fetching" /\ ft.attempt = i

\* a 429 and a timeout were retried, and the 404 of the third attempt returned
C11_Witness ==
  /\ ft.pc = "returned"
  /\ Len(ft.log) = 3
  /\ ft.log[1].outcome = HttpResponse(429)
  /\ ft.log[2].outcome = Rejection("AbortError")
  /\ ft.response = Some(HttpResponse(404))

\* the exception of the last attempt of the log that raised one, or the
\* generic error when none did
LastExceptionOf(log) ==
  LET raised == {i \in 1..Len(log) : log[i].outcome.kind = "exception"} IN
  IF raised = {} THEN "Max retries exceeded"
  ELSE log[CHOOSE i \in raised : \A j \in raised : j <= i].outcome.error

\* C12: when every one of the maxRetries attempts ends in 429, a status >=
\* 500 or a transport exception, fetchWithRetry makes exactly maxRetries
\* attempts and throws instead of returning: the exception of the last
\* attempt that raised one, or 'Max retries exceeded' when none did.  It
\* throws in no other case.
C12_ExhaustionThrows ==
  /\ (/\ ft.pc # "idle"
      /\ Len(ft.log) = ft.maxRetries
      /\ \A i \in 1..Len(ft.log) : RetryableOutcome(ft.log[i].outcome)) =>
       /\ ft.pc \in {"backoff", "thrown"}
       /\ ft.response = None
  /\ ft.pc = "thrown" =>
       /\ Len(ft.log) = ft.maxRetries
       /\ \A i \in 1..Len(ft.log) : RetryableOutcome(ft.log[i].outcome)
       /\ ft.error = Some(LastExceptionOf(ft.log))

\* three attempts failed, the second the last to raise an exception: thrown
C12_Witness ==
  /\ ft.pc = "thrown"
  /\ Len(ft.log) = 3
  /\ ft.log[1].outcome = Rejection("AbortError")
  /\ ft.log[2].outcome = Rejection("TypeError")
  /\ ft.log[3].outcome = HttpResponse(503)
  /\ ft.error = Some("TypeError")

\* C13: a backoff of 2^attempt * 1000 ms is awaited after a retryable
\* failure of an attempt exactly when another attempt follows it: after the
\* failure of the last attempt (attempt = maxRetries - 1), by 429/5xx status or
\* by exception, there is no wait before the error is raised.
C13_NoBackoffAfterLastAttempt ==
  \A i \in 1..Len(ft.log) :
    /\ ft.log[i].wait # None =>
         /\ RetryableOutcome(ft.log[i].outcome)
         /\ ft.log[i].wait = Some((2 ^ ft.log[i].attempt) * 1000)
         /\ ft.log[i].attempt < ft.maxRetries - 1
    /\ (RetryableOutcome(ft.log[i].outcome)
          /\ ft.log[i].attempt < ft.maxRetries - 1) =>
         ft.log[i].wait # None

\* the third of three attempts was answered 503 and the call is waiting 4 s
C13_Witness ==
  /\ ft.pc = "backoff"
  /\ ft.maxRetries = defaultMaxRetries
  /\ Len(ft.log) = 3
  /\ ft.log[3].outcome = HttpResponse(503)
  /\ ft.log[3].wait = Some(4000)

\* the price C14 describes: the highest tier whose threshold qty has reached
\* and whose price is above 0, the base price when there is none
LadderPrice(row, qty) ==
  LET tiers == {t \in {<<100, row.priceX100>>, <<50, row.priceX50>>,
                      <<10, row.priceX10>>} : qty >= t[1] /\ t[2] > 0}
  IN IF tiers = {} THEN row.priceBase
     ELSE (CHOOSE t \in tiers : \A u \in tiers : u[1] <= t[1])[2]

\* C14: getUnitPrice follows the ladder highest first and skips zero tiers:
\* priceX100 when qty >= 100 and priceX100 > 0, else priceX50 when qty >= 50
\* and priceX50 > 0, else priceX10 when qty >= 10 and priceX10 > 0, else the
\* base price; base 10, X10 0, X50 5, X100 3 gives 5 at qty 60 and 10 at qty 5.
C14_PricingLadder ==
  quote.pc = "returned" =>
    /\ quote.result = LadderPrice(quote.row, quote.qty)
    /\ (quote.row = [priceBase |-> 10, priceX10 |-> 0, priceX50 |-> 5,
                     priceX100 |-> 3]) =>
         /\ quote.qty = 60 => quote.result = 5
         /\ quote.qty = 5 => quote.result = 10

\* qty 60 on the row base 10, X10 0, X50 5, X100 3 was priced 5
C14_Witness ==
  /\ quote.pc = "returned"
  /\ quote.row = [priceBase |-> 10, priceX10 |-> 0, priceX50 |-> 5,
                  priceX100 |-> 3]
  /\ quote.qty = 60
  /\ quote.result = 5

\* the rows of the cart with a quantity above 0, in the order of the page
SelectedIndexes == {i \in 1..Len(cart.state) : cart.state[i].qty > 0}

\* the row of the cart an item of the payload was built from
RowOfItem(item) ==
  cart.state[CHOOSE i \in 1..Len(cart.state) : cart.state[i].id = item.id]

\* the sum of f over a finite set of indexes
RECURSIVE SumOver(_, _)
SumOver(indexes, f) ==
  IF indexes = {} THEN 0
  ELSE LET i == CHOOSE j \in indexes : TRUE
       IN f[i] + SumOver(indexes \ {i}, f)

\* C15: with at least one row of qty > 0 the payload's items are exactly the
\* rows with qty > 0, each item's subtotal is qty * unitPrice(qty), total is
\* the sum of qty * unitPrice(qty), subtotal the sum of qty * base price, and
\* discount = max(0, subtotal - total); with no row selected the result is
\* null.  The cart 12 x (10, 8 from 10), 2 x 5, 100 x (2, 1 from 100) gives
\* subtotal 330, total 206 and discount 124.
C15_PayloadTotals ==
  cart.payload.built =>
    LET value == cart.payload.value IN
    /\ (SelectedIndexes = {}) <=> (value = None)
    /\ value # None =>
         LET items == value[1].items IN
         /\ {items[k].id : k \in 1..Len(items)}
              = {cart.state[i].id : i \in SelectedIndexes}
         /\ Len(items) = Cardinality(SelectedIndexes)
         /\ \A k \in 1..Len(items) :
              /\ items[k].qty = RowOfItem(items[k]).qty
              /\ items[k].qty > 0
              /\ items[k].unitPrice
                   = LadderPrice(RowOfItem(items[k]), items[k].qty)
              /\ items[k].subtotal = items[k].qty * items[k].unitPrice
         /\ value[1].total
              = SumOver(SelectedIndexes,
                        [i \in SelectedIndexes |->
                           cart.state[i].qty
                             * LadderPrice(cart.state[i], cart.state[i].qty)])
         /\ value[1].subtotal
              = SumOver(SelectedIndexes,
                        [i \in SelectedIndexes |->
                           cart.state[i].qty * cart.state[i].priceBase])
         /\ value[1].discount
              = (IF value[1].subtotal - value[1].total > 0
                 THEN value[1].subtotal - value[1].total ELSE 0)
         /\ ([i \in 1..Len(cart.state) |-> cart.state[i].qty] = <<12, 2, 100>>
               /\ cart.state[1].priceX10 = 8) =>
              /\ value[1].subtotal = 330
              /\ value[1].total = 206
              /\ value[1].discount = 124

\* the payload of the cart 12, 2, 100 of the three-product page was built
C15_Witness ==
  /\ cart.payload.built
  /\ cart.payload.value # None
  /\ [i \in 1..Len(cart.state) |-> cart.state[i].qty] = <<12, 2, 100>>
  /\ cart.payload.value[1].total = 206
  /\ cart.payload.value[1].discount = 124

\* C16: for any cart the payload built satisfies total = subtotal - discount
\* exactly.
C16_TotalIsSubtotalMinusDiscount ==
  (cart.payload.built /\ cart.payload.value # None) =>
    cart.payload.value[1].total
      = cart.payload.value[1].subtotal - cart.payload.value[1].discount

\* a payload whose total is above its subtotal: 100 units at the tier price
\* 12 of a product whose base price is 10
C16_Witness ==
  /\ cart.payload.built
  /\ cart.payload.value # None
  /\ cart.payload.value[1].subtotal = 1000
  /\ cart.payload.value[1].total = 1200
  /\ cart.payload.value[1].discount = 0

\* the handlers that change a quantity
MutationOps == {"increment", "decrement", "set"}

\* the quantity the specification gives a direct-set of value
ClampedFloor(value) ==
  IF value.kind # "finite" THEN 0
  ELSE IF value.twice < 0 THEN 0
  ELSE value.twice \div 2

\* C17: after any sequence of increment, decrement and direct-set operations
\* with arbitrary numeric input (negative, fractional, NaN, +/-Infinity) every
\* row's qty is a non-negative integer: decrement at 0 leaves 0, direct-set
\* stores max(0, floor(value)) for a finite value and 0 for a non-finite one.
C17_QuantitiesClamped ==
  /\ \A i \in 1..Len(cart.state) :
       /\ cart.state[i].qty \in Nat
       /\ cart.state[i].countValue = cart.state[i].qty
  /\ cart.last.op = "increment" =>
       qtyOf(cart.state, cart.last.id) = cart.last.qtyBefore + 1
  /\ cart.last.op = "decrement" =>
       qtyOf(cart.state, cart.last.id)
         = (IF cart.last.qtyBefore = 0 THEN 0 ELSE cart.last.qtyBefore - 1)
  /\ cart.last.op = "set" =>
       qtyOf(cart.state, cart.last.id) = ClampedFloor(cart.last.value)

\* the minus button was clicked on a row at 0, after a direct-set of a
\* non-finite or negative value to another or the same row
C17_Witness ==
  /\ cart.last.op = "decrement"
  /\ cart.last.qtyBefore = 0
  /\ qtyOf(cart.state, cart.last.id) = 0
  /\ cart.ops = 2

\* C18: on load, when the stored version marker differs from the version the
\* code expects (an absent or non-numeric marker included), loadQuantities
\* returns an empty map, removes the stored quantities and rewrites the marker
\* to the expected version, so that no quantity stored under another version
\* is ever applied to the cart.  The removal and the rewriting are those of a
\* storage that accepts them.
C18_VersionMismatchWipes ==
  (cart.last.op = "init" /\ dom.hasSummary
     /\ markerVersion(cart.last.storeBefore.version) # STORAGE_VERSION) =>
    /\ cart.last.loaded = NoEntries
    /\ \A i \in 1..Len(cart.state) : cart.state[i].qty = 0
    /\ cart.last.mode = "ok" =>
         /\ cart.pc = "ready"
         /\ cart.last.afterLoad
              = [version |-> Some(versionMarker(STORAGE_VERSION)),
                 state |-> None]
    /\ cart.last.mode \in {"ok", "readonly", "quota"} =>
         cart.last.afterLoad.state = None

\* init has run over quantities of the products of the page stored under the
\* marker "2"
C18_Witness ==
  /\ cart.last.op = "init"
  /\ cart.pc = "ready"
  /\ cart.last.mode = "ok"
  /\ cart.last.storeBefore.version = Some("2")
  /\ cart.last.storeBefore.state # None
  /\ cart.last.storeBefore.state[1].kind = "object"
  /\ "p1" \in DOMAIN parsedQuantities(cart.last.storeBefore.state[1].entries)
  /\ Len(cart.state) > 0
  /\ \A i \in 1..Len(cart.state) : cart.state[i].qty = 0

\* C19: after every user-triggered quantity mutation and after init, provided
\* the storage writes succeed, the persisted state equals the in-memory cart:
\* the stored JSON object maps exactly the ids of the rows with qty > 0 to
\* their qty, and the stored version marker is the current storage version.
C19_PersistedEqualsCart ==
  (cart.pc = "ready" /\ cart.last.op \in MutationOps \cup {"init"}
     /\ cart.last.saved) =>
    /\ store.version = Some("1")
    /\ store.state # None
    /\ store.state[1].kind = "object"
    /\ DOMAIN store.state[1].entries
         = {cart.state[i].id : i \in SelectedIndexes}
    /\ \A i \in SelectedIndexes :
         store.state[1].entries[cart.state[i].id]
           = [kind |-> "finite", twice |-> 2 * cart.state[i].qty]

\* a mutation was saved with one row above 0 and another at 0
C19_Witness ==
  /\ cart.pc = "ready"
  /\ cart.last.op \in MutationOps
  /\ cart.last.saved
  /\ SelectedIndexes # {}
  /\ SelectedIndexes # 1..Len(cart.state)
  /\ store.state # None
  /\ DOMAIN store.state[1].entries = {cart.state[i].id : i \in SelectedIndexes}

\* C20: a failure of any local-storage operation, on load or on save, is
\* non-fatal: the cart keeps its in-memory quantities, the mutation that
\* triggered the write has already been rendered, init completes, and no error
\* escapes to the caller of the handler.
C20_StorageFailureNonFatal ==
  /\ ~cart.last.escaped
  /\ (cart.last.op = "init" /\ dom.hasSummary) => cart.pc = "ready"
  /\ (cart.pc = "ready" /\ cart.last.op \in MutationOps \cup {"init"}) =>
       /\ [k \in 1..Len(cart.view.lines) |->
             <<cart.view.lines[k].id, cart.view.lines[k].qty>>]
            = [k \in 1..Len(getSelectedRows(cart.state)) |->
                 <<getSelectedRows(cart.state)[k].id,
                   getSelectedRows(cart.state)[k].qty>>]
       /\ cart.last.op \in MutationOps =>
            qtyOf(cart.state, cart.last.id)
              = (IF cart.last.op = "increment" THEN cart.last.qtyBefore + 1
                 ELSE IF cart.last.op = "decrement"
                 THEN Max(0, cart.last.qtyBefore - 1)
                 ELSE ClampedFloor(cart.last.value))

\* init on a page whose localStorage throws on every access: the error of
\* removeItem in the catch of loadQuantities has escaped init
C20_Witness ==
  /\ cart.last.op = "init"
  /\ cart.last.mode = "denied"
  /\ cart.last.escaped
  /\ cart.pc = "crashed"

\* C30: every Response fetchWithRetry returns, for any sequence of upstream
\* outcomes and any maxRetries >= 0, is ok (2xx) or has a status that is
\* neither 429 nor >= 500; a 429 or 5xx response is never handed to the
\* caller, not even on the last attempt.
C30_NoRetryableResponseReturned ==
  /\ ft.response # None =>
       /\ ft.pc = "returned"
       /\ ft.response[1].kind = "response"
       /\ \/ ft.response[1].status \in 200..299
          \/ ft.response[1].status # 429 /\ ft.response[1].status < 500
  /\ ft.pc = "returned" => ft.response # None
  /\ \A i \in 1..Len(ft.log) :
       (ft.log[i].outcome.kind = "response"
          /\ (ft.log[i].outcome.status = 429 \/ ft.log[i].outcome.status >= 500))
         => ft.response # Some(ft.log[i].outcome)

\* the last of three attempts returned a 404 after a 500 and a 429
C30_Witness ==
  /\ ft.pc = "returned"
  /\ ft.maxRetries = 3
  /\ Len(ft.log) = 3
  /\ ft.log[1].outcome = HttpResponse(500)
  /\ ft.log[2].outcome = HttpResponse(429)
  /\ ft.response = Some(HttpResponse(404))

\* C29: save/load round trip: when the cart was persisted under the current
\* storage version and the page is then initialized again with the same
\* product cards, every row's qty after init is the quantity it had when
\* saved, and the rows that were at 0 stay at 0; rehydration does not write to
\* storage before init's final save (loadQuantities leaves the storage as it
\* found it).
C29_SaveLoadRoundTrip ==
  (cart.last.op = "init" /\ cart.pc = "ready" /\ cart.prev.saved) =>
    /\ {cart.state[i].id : i \in 1..Len(cart.state)} = DOMAIN cart.prev.qtys
    /\ \A i \in 1..Len(cart.state) :
         cart.state[i].qty = cart.prev.qtys[cart.state[i].id]
    /\ cart.last.afterLoad = cart.last.storeBefore
    /\ cart.last.storeBefore.version = Some("1")

\* the page was left with 100 units of one product saved and another product
\* at 0, and has been initialized again
C29_Witness ==
  /\ cart.last.op = "init"
  /\ cart.pc = "ready"
  /\ cart.prev.saved
  /\ cart.loads = 2
  /\ \E i, j \in 1..Len(cart.state) :
       /\ cart.state[i].qty = 100 /\ cart.prev.qtys[cart.state[i].id] = 100
       /\ cart.state[j].qty = 0 /\ cart.prev.qtys[cart.state[j].id] = 0

\* the text of a title or rich_text member: the plain_text of its first item
FirstItemText(member) ==
  IF member = None THEN <<>>
  ELSE IF Len(member[1]) = 0 THEN <<>> ELSE member[1][1]

\* the string of a select, formula or url member
MemberText(member) == IF member = None THEN <<>> ELSE member[1]

\* the values of a property in the order of priority: title text, rich-text
\* plain text, select option name, formula string, URL string
ValuesByPriority(p) ==
  <<FirstItemText(p.title), FirstItemText(p.rich_text), MemberText(p.select),
    MemberText(p.formula), MemberText(p.url)>>

\* C28: getTextPropertyValue returns the first non-empty value in the order
\* title text, rich-text plain text, select option name, formula string, URL
\* string, and the empty string only when all of them are empty or absent: a
\* present but empty higher-priority field does not keep a non-empty
\* lower-priority field from being returned.
C28_FirstNonEmptyWins ==
  (textSt.pc = "returned" /\ textSt.property # None) =>
    LET values == ValuesByPriority(textSt.property[1])
        nonEmpty == {k \in 1..Len(values) : values[k] # <<>>}
    IN IF nonEmpty = {} THEN textSt.result = <<>>
       ELSE textSt.result
              = values[CHOOSE k \in nonEmpty : \A j \in nonEmpty : k <= j]

\* a property whose title is an empty array and whose rich_text has text: the
\* empty string was returned
C28_Witness ==
  /\ textSt.pc = "returned"
  /\ textSt.property # None
  /\ textSt.property[1].title = Some(<<>>)
  /\ textSt.property[1].rich_text = Some(<<<<"r">>>>)
  /\ textSt.result = <<>>

\* the results of the responses of a log, one after another
RECURSIVE ResultsInOrder(_)
ResultsInOrder(log) ==
  IF log = <<>> THEN <<>>
  ELSE ResultsInOrder(SubSeq(log, 1, Len(log) - 1))
         \o (IF log[Len(log)].response.results = None THEN <<>>
             ELSE log[Len(log)].response.results[1])

\* C26: queryAllDatabasePages issues its page requests strictly one after
\* another, each request after the first carrying the previous response's
\* next_cursor as start_cursor, stops at the first response whose has_more is
\* false, and returns the concatenation of all pages' results in request
\* order; if a page request fails the scan fails and no partial result is
\* returned.
C26_CursorPagination ==
  /\ (scanSt.request # None) <=> (scanSt.pc = "requesting")
  /\ \A i \in 1..Len(scanSt.log) :
       LET entry == scanSt.log[i] IN
       /\ entry.request.page_size = 100
       /\ entry.request.start_cursor
            = (IF i = 1 THEN None ELSE scanSt.log[i - 1].response.next_cursor)
       /\ i < Len(scanSt.log) =>
            ~entry.response.throws /\ entry.response.has_more
       /\ (~entry.response.throws /\ ~entry.response.has_more) =>
            /\ i = Len(scanSt.log)
            /\ scanSt.pc = "returned"
            /\ scanSt.result = Some(ResultsInOrder(scanSt.log))
       /\ entry.response.throws =>
            /\ i = Len(scanSt.log)
            /\ scanSt.pc = "threw"
            /\ scanSt.result = None
       /\ (i = Len(scanSt.log) /\ ~entry.response.throws
             /\ entry.response.has_more) =>
            /\ scanSt.pc = "requesting"
            /\ scanSt.request[1].start_cursor = entry.response.next_cursor
            /\ scanSt.result = None
  /\ scanSt.pc = "returned" => Len(scanSt.log) > 0
  /\ scanSt.pc = "threw" => Len(scanSt.log) > 0

\* a scan of three pages has returned: the second request carried the cursor
\* c, the third the cursor d, and the results are those of the three pages
C26_Witness ==
  /\ scanSt.pc = "returned"
  /\ Len(scanSt.log) = 3
  /\ scanSt.log[2].request.start_cursor = Some(<<"c">>)
  /\ scanSt.log[3].request.start_cursor = Some(<<"d">>)
  /\ scanSt.result = Some(<<"1", "2", "3", "1">>)

\* a candidate query has been answered with at least one result
CandidateHit(query) ==
  /\ query.answer # None
  /\ ~query.answer[1].throws
  /\ Len(query.answer[1].results) > 0

\* the pages of the companies table that match the slug looked for: the
\* slugified slug or the slugified name of the record is the slugified target
MatchingPages(pages, target) ==
  {k \in 1..Len(pages) :
     \/ slugify(parseCompanySlug(pages[k])) = slugify(target)
     \/ slugify(parseCompanyName(pages[k])) = slugify(target)}

\* C21: when no company-slug candidate query returns a result,
\* findCompanyPageBySlug scans every page of the companies table and returns
\* the first page in scan order whose slugified slug or slugified name equals
\* the slugified target slug; when no page matches it fails with the
\* company-not-found error rather than returning a value.
C21_ScanFallback ==
  /\ findSt.scan.pc # "idle" =>
       /\ Len(findSt.queries) = 4
       /\ \A k \in 1..4 : ~CandidateHit(findSt.queries[k])
  /\ (findSt.pc \in {"returned", "threw"} /\ Len(findSt.queries) = 4
        /\ ~CandidateHit(findSt.queries[4])) =>
       /\ findSt.scan.pc \in {"returned", "threw"}
       /\ findSt.scan.pc = "threw" =>
            findSt.pc = "threw" /\ findSt.error = "Network" /\ findSt.page = None
       /\ findSt.scan.pc = "returned" =>
            LET pages == ResultsInOrder(findSt.scan.log)
                matching == MatchingPages(pages, findSt.slug)
            IN IF matching = {}
               THEN /\ findSt.pc = "threw"
                    /\ findSt.error = "CompanyNotFound"
                    /\ findSt.page = None
               ELSE /\ findSt.pc = "returned"
                    /\ findSt.page
                         = Some(pages[CHOOSE k \in matching :
                                        \A j \in matching : k <= j])

\* no candidate had a result, the scan took two page requests and the record
\* returned is the second of the first page, matched by its name before a
\* record of the second page matched by its slug
C21_Witness ==
  /\ findSt.pc = "returned"
  /\ findSt.slug = <<"a", "b">>
  /\ Len(findSt.scan.log) = 2
  /\ findSt.page = Some(PageNameAb)
  /\ ResultsInOrder(findSt.scan.log)
       = <<PageOther, PageNameAb, PageSlugAb, PageNameAB>>

\* C23: findCompanyPageBySlug queries the candidate properties one at a time
\* in the order Slug, slug, Client Slug, client-slug; the first query that
\* returns at least one result supplies the answer (its first result) and no
\* later candidate query and no full scan is issued; a candidate query that
\* throws is treated as no match and the next candidate is tried.
C23_CandidatesInOrder ==
  /\ Len(findSt.queries) <= 4
  /\ \A k \in 1..Len(findSt.queries) :
       LET query == findSt.queries[k] IN
       /\ query.property = <<"Slug", "slug", "Client Slug", "client-slug">>[k]
       /\ query.equals = findSt.slug
       /\ k < Len(findSt.queries) =>
            query.answer # None /\ ~CandidateHit(query)
       /\ query.answer = None =>
            k = Len(findSt.queries) /\ findSt.pc = "candidate" /\ findSt.i = k
       /\ CandidateHit(query) =>
            /\ k = Len(findSt.queries)
            /\ findSt.pc = "returned"
            /\ findSt.page = Some(query.answer[1].results[1])
            /\ findSt.scan = NoScan
       /\ (query.answer # None /\ ~CandidateHit(query)) =>
            \/ k < Len(findSt.queries)
            \/ k = 4 /\ findSt.scan.pc # "idle"
  /\ findSt.pc = "threw" => findSt.scan.pc \in {"returned", "threw"}

\* the query on Slug threw, the query on slug had no result, and the query on
\* Client Slug gave the record returned
C23_Witness ==
  /\ findSt.pc = "returned"
  /\ Len(findSt.queries) = 3
  /\ findSt.queries[1].answer = Some(Throws)
  /\ findSt.queries[2].answer = Some(NoResult)
  /\ findSt.page = Some(PageSlugAb)
  /\ findSt.scan = NoScan

\* a filtered query has been answered with at least one result
FilteredHit(query) ==
  /\ query.answer # None
  /\ ~query.answer[1].throws
  /\ Len(query.answer[1].results) > 0

\* an id with its hyphens removed and its letters in lower case
IdKey(id) ==
  LET kept == SelectSeq(id, LAMBDA c : c # "-") IN
  [i \in 1..Len(kept) |-> IF kept[i] = "A" THEN "a" ELSE kept[i]]

\* the page has the company's id, compared without hyphens and case, in a
\* property a candidate names or in a property typed as a relation
HasCompanyId(page, candidateNames, companyId) ==
  \E n \in DOMAIN page.properties :
    /\ n \in candidateNames \/ page.properties[n].type = "relation"
    /\ page.properties[n].relation # None
    /\ \E k \in 1..Len(page.properties[n].relation[1]) :
         IdKey(page.properties[n].relation[1][k]) = IdKey(companyId)

\* C22: when no layer-2 filtered query returns a result (none matches or all
\* fail, e.g. the relation property is the undiscovered alias Cliente),
\* getCatalogData falls back to a paginated full scan of the products table and
\* returns exactly the scanned pages that have the company's id, compared
\* hyphen- and case-insensitively, in a candidate-named relation property or
\* in any relation-typed property: every matching product is recovered.
C22_FullScanRecoversProducts ==
  /\ prodSt.scan.pc # "idle" =>
       /\ Len(prodSt.queries) = Len(prodSt.plan)
       /\ \A k \in 1..Len(prodSt.queries) : ~FilteredHit(prodSt.queries[k])
  /\ (prodSt.pc = "returned" /\ prodSt.scan.pc # "idle") =>
       /\ prodSt.scan.pc = "returned"
       /\ prodSt.pages
            = Some(SelectSeq(ResultsInOrder(prodSt.scan.log),
                     LAMBDA page :
                       HasCompanyId(page, Range(prodSt.candidates),
                                    prodSt.companyId)))
  /\ (prodSt.pc \in {"returned", "threw"} /\ prodSt.queries # <<>>
        /\ \A k \in 1..Len(prodSt.queries) : ~FilteredHit(prodSt.queries[k])) =>
       prodSt.scan.pc \in {"returned", "threw"}

\* the schema request failed, every filtered query threw, and the scan of two
\* pages recovered the product related through Cliente together with the one
\* related through Empresa
C22_Witness ==
  /\ prodSt.pc = "returned"
  /\ prodSt.schema # None /\ prodSt.schema[1].throws
  /\ \A k \in 1..Len(prodSt.queries) : prodSt.queries[k].answer = Some(Throws)
  /\ Len(prodSt.scan.log) = 2
  /\ prodSt.pages = Some(<<ProductEmpresa, ProductCliente>>)

\* the names of the schema's relation properties that point at the companies
\* table
DiscoveredNames(schema) ==
  IF schema.throws THEN {}
  ELSE {schema.properties[k].name :
          k \in {j \in 1..Len(schema.properties) :
                   /\ schema.properties[j].type = "relation"
                   /\ schema.properties[j].database_id # None
                   /\ IdKey(schema.properties[j].database_id[1])
                        = IdKey(companiesDbId)}}

\* the position of a name in a sequence without duplicates, 0 when absent
PositionIn(seq, name) ==
  IF \E k \in 1..Len(seq) : seq[k] = name
  THEN CHOOSE k \in 1..Len(seq) : seq[k] = name
  ELSE 0

\* the forms of the company id in the order they are tried: raw, then without
\* hyphens and in lower case when that differs
IdForms(companyId) ==
  IF IdKey(companyId) = companyId THEN <<companyId>>
  ELSE <<companyId, IdKey(companyId)>>

\* C24: in layer 2 of getCatalogData the candidate names are the
\* schema-discovered relation names followed by Empresa, Empresas, Company
\* (deduplicated), and for each name the company id is tried raw and then
\* hyphen-stripped and lowercased; the first filtered query returning a
\* non-empty result supplies the product pages, after which no further
\* filtered query and no full scan is issued; a query that throws is skipped.
C24_FilteredQueriesInOrder ==
  prodSt.schema # None =>
    LET names == prodSt.candidates
        forms == IdForms(prodSt.companyId)
        fixed == <<"Empresa", "Empresas", "Company">>
        discovered == DiscoveredNames(prodSt.schema[1])
    IN
    /\ Range(names) = discovered \cup Range(fixed)
    /\ \A i, j \in 1..Len(names) : names[i] = names[j] => i = j
    /\ \A d \in discovered, f \in Range(fixed) \ discovered :
         PositionIn(names, d) < PositionIn(names, f)
    /\ \A i, j \in 1..3 :
         (i < j /\ fixed[i] \notin discovered /\ fixed[j] \notin discovered)
           => PositionIn(names, fixed[i]) < PositionIn(names, fixed[j])
    /\ Len(prodSt.queries) <= Len(names) * Len(forms)
    /\ \A k \in 1..Len(prodSt.queries) :
         LET query == prodSt.queries[k] IN
         /\ query.property = names[((k - 1) \div Len(forms)) + 1]
         /\ query.contains = forms[((k - 1) % Len(forms)) + 1]
         /\ k < Len(prodSt.queries) =>
              query.answer # None /\ ~FilteredHit(query)
         /\ query.answer = None =>
              k = Len(prodSt.queries) /\ prodSt.pc = "filtered"
         /\ FilteredHit(query) =>
              /\ k = Len(prodSt.queries)
              /\ prodSt.pc = "returned"
              /\ prodSt.pages = Some(query.answer[1].results)
              /\ prodSt.scan = NoScan
         /\ (query.answer # None /\ ~FilteredHit(query)) =>
              \/ k < Len(prodSt.queries)
              \/ k = Len(names) * Len(forms) /\ prodSt.scan.pc # "idle"
    /\ prodSt.pc = "threw" => prodSt.scan.pc = "threw"

\* the schema names Cliente before the aliases; the query on Cliente with the
\* raw id threw, the one with the plain id had no result, and the query on
\* Empresa with the raw id gave the product pages
C24_Witness ==
  /\ prodSt.pc = "returned"
  /\ prodSt.companyId = <<"A", "-", "b">>
  /\ prodSt.candidates = <<"Cliente", "Empresa", "Empresas", "Company">>
  /\ Len(prodSt.queries) = 3
  /\ prodSt.queries[1].answer = Some(Throws)
  /\ prodSt.queries[2].contains = <<"a", "b">>
  /\ prodSt.queries[2].answer = Some(NoResult)
  /\ prodSt.queries[3].property = "Empresa"
  /\ prodSt.pages = Some(<<ProductEmpresa>>)
  /\ prodSt.scan = NoScan

\* C25: a failure of the schema introspection step (the schema request throws
\* or returns a non-ok status) never fails getCatalogData: the discovered set
\* is empty and resolution continues with the fixed aliases Empresa,
\* Empresas, Company.
C25_SchemaFailureNonFatal ==
  (prodSt.schema # None /\ prodSt.schema[1].throws) =>
    /\ prodSt.candidates = <<"Empresa", "Empresas", "Company">>
    /\ prodSt.queries # <<>>
    /\ prodSt.queries[1].property = "Empresa"
    /\ prodSt.queries[1].contains = prodSt.companyId
    /\ prodSt.pc \in {"filtered", "scanning", "returned", "threw"}
    /\ prodSt.pc = "threw" => prodSt.scan.pc = "threw"

\* the schema request came back with a status that is not ok, and the product
\* pages are those of the query on the alias Empresas
C25_Witness ==
  /\ prodSt.pc = "returned"
  /\ prodSt.schema # None
  /\ prodSt.schema[1].throws
  /\ prodSt.schema[1].cause = "status"
  /\ prodSt.queries[Len(prodSt.queries)].property = "Empresas"
  /\ prodSt.pages = Some(<<ProductEmpresa>>)

\* C33: when a filtered query is answered with results, the product pages
\* getCatalogData goes on with are all the pages that match that query
\* upstream: those of the response and those the upstream kept for later
\* response pages when it said has_more.
C33_FilteredResultComplete ==
  (prodSt.pc = "returned" /\ prodSt.queries # <<>>
     /\ FilteredHit(prodSt.queries[Len(prodSt.queries)])) =>
    /\ prodSt.pages # None
    /\ prodSt.pages[1]
         = prodSt.queries[Len(prodSt.queries)].answer[1].results
             \o prodSt.unsent

\* a filtered query answered with one match and has_more, and getCatalogData
\* through with its layers
C33_Witness ==
  /\ prodSt.pc = "returned"
  /\ prodSt.queries # <<>>
  /\ FilteredHit(prodSt.queries[Len(prodSt.queries)])
  /\ prodSt.queries[Len(prodSt.queries)].answer[1].has_more
  /\ prodSt.unsent # <<>>
  /\ prodSt.scan = NoScan

====
